---- MODULE Spec2Model ----
(***************************************************************************)
(* A model of the NL2SQL response pipeline: the SQL validator, the         *)
(* execution-feedback loop, the query-plan cache, the multi-level cache    *)
(* manager, the semantic cache with its vector store, and the sync/async   *)
(* orchestrators' generate_sql.                                            *)
(*                                                                         *)
(* Each component has its own specification (SpecValidator, SpecLoop,      *)
(* SpecPlan, SpecCache, SpecSem); the variables of the other components    *)
(* stay at their initial value under it.                                   *)
(*                                                                         *)
(* Strings: a SQL statement or a question is a sequence of tokens (words   *)
(* separated by one blank); the token NL is a line break, ";" is adjacent  *)
(* to the word before it.  Regular expressions of the source are matched   *)
(* on the tokens.  Similarities and confidences are in hundredths.         *)
(***************************************************************************)
EXTENDS Integers, Sequences, FiniteSets, TLC

VARIABLES
    val,      \* SQLValidator instance, its input and its last ValidationResult
    loop,     \* ExecutionFeedbackLoop + SQLExecutionFeedbackHandler, one run
    plan,     \* QueryPlanCache
    cm,       \* CacheManager: _local_cache, _current_schema_version, metrics
    now,      \* datetime.now(), in seconds
    vs,       \* EmbeddingVectorStore: _vectors, _metadata, _keys_order
    sc,       \* SemanticCache: its hit and miss counters
    emb,      \* the injected embedder: cosine similarity of two normalized questions
    orch,     \* the orchestrators' requests, pending LLM calls, background tasks
    batch,    \* generate_sql_batch: its semaphore, its tasks, the gather
    store,    \* CacheManager on its Redis client: Redis' keys, the last call
    post,     \* SQLPostProcessor.process applied to one SQL string, then to its result
    svm,      \* SchemaVersionManager.compute_schema_hash on a schema and on a relisting of it
    exe,      \* QueryExecutor.execute: the query given, the statements sent to the database
    thr,      \* an executor thread inside CacheManager.invalidate_level, beside the event loop
    mgr,      \* SchemaVersionManager: max_history, current_snapshot, history, the last call
    conv,     \* a converter's caching attributes around initialize and load_schema
    last      \* the last operation's observable result

vars == <<val, loop, plan, cm, now, vs, sc, emb, orch, batch, store, post, svm, exe, thr, mgr, conv, last>>

None == "None"

(***************************************************************************)
(* Generic helpers                                                         *)
(***************************************************************************)
Range(s) == {s[i] : i \in 1..Len(s)}

Min(a, b) == IF a <= b THEN a ELSE b

Max(a, b) == IF a >= b THEN a ELSE b

\* index of the first element at or after i that satisfies no skipping, Len+1 if none
RECURSIVE SkipWs(_, _)
SkipWs(s, i) ==
    IF i > Len(s) THEN Len(s) + 1
    ELSE IF s[i] = "NL" THEN SkipWs(s, i + 1) ELSE i

\* a \w+ run
IsWord(tok) == tok \notin {"NL", ";", "*", "=", ","}

(***************************************************************************)
(* SQLValidator  (src/src/core/sql_validator.py)                           *)
(***************************************************************************)
\* \bDROP\s+(TABLE|DATABASE|INDEX)
MatchDrop(s) ==
    \E i \in 1..Len(s) :
        /\ s[i] = "DROP"
        /\ LET j == SkipWs(s, i + 1)
           IN  j <= Len(s) /\ s[j] \in {"TABLE", "DATABASE", "INDEX"}

\* \bKW\s+ : the keyword followed by white space
MatchKeywordWs(s, kw) ==
    \E i \in 1..Len(s) : s[i] = kw /\ i < Len(s) /\ s[i + 1] # ";"

\* \bDELETE\s+FROM\s+\w+\s*(?:;|$)
MatchDelete(s) ==
    \E i \in 1..Len(s) :
        /\ s[i] = "DELETE"
        /\ LET j == SkipWs(s, i + 1)
               k == SkipWs(s, j + 1)
               m == SkipWs(s, k + 1)
           IN  /\ j <= Len(s) /\ s[j] = "FROM"
               /\ k <= Len(s) /\ IsWord(s[k])
               /\ (m > Len(s) \/ s[m] = ";")

\* index of the first NL at or after i, Len+1 if none
RECURSIVE LineEnd(_, _)
LineEnd(s, i) ==
    IF i > Len(s) THEN Len(s) + 1
    ELSE IF s[i] = "NL" THEN i ELSE LineEnd(s, i + 1)

\* \bUPDATE\s+\w+\s+SET\s+.*(?:;|$)(?!.*WHERE) : "." does not cross a line break and
\* "$" matches at the end of the string (or before one final line break) only
MatchUpdate(s) ==
    \E i \in 1..Len(s) :
        /\ s[i] = "UPDATE"
        /\ LET j == SkipWs(s, i + 1)
               k == SkipWs(s, j + 1)
               a == SkipWs(s, k + 1)
               e == LineEnd(s, a)
           IN  /\ j <= Len(s) /\ IsWord(s[j])
               /\ k <= Len(s) /\ s[k] = "SET"
               /\ k < Len(s) /\ s[k + 1] # ";"
               /\ \/ e >= Len(s)
                  \/ \E p \in a..(e - 1) :
                        /\ s[p] = ";"
                        /\ \A r \in (p + 1)..(e - 1) : s[r] # "WHERE"

_check_dangerous_operations(s) ==
    LET hit == <<MatchDrop(s), MatchKeywordWs(s, "TRUNCATE"), MatchDelete(s),
                 MatchUpdate(s), MatchKeywordWs(s, "INSERT"), MatchKeywordWs(s, "ALTER"),
                 MatchKeywordWs(s, "CREATE"), MatchKeywordWs(s, "GRANT"),
                 MatchKeywordWs(s, "REVOKE")>>
    IN  SelectSeq([i \in 1..9 |-> IF hit[i] THEN "dangerous_query" ELSE "-"],
                  LAMBDA x : x = "dangerous_query")

\* \bfrom\s+(\w+...) and \bjoin\s+(\w+): the word after FROM or JOIN
_extract_tables(s) ==
    {s[SkipWs(s, i + 1)] : i \in {n \in 1..Len(s) :
        /\ s[n] \in {"FROM", "JOIN"}
        /\ SkipWs(s, n + 1) <= Len(s)
        /\ IsWord(s[SkipWs(s, n + 1)])}}

_validate_tables(tables, table_names) ==
    {t \in tables : t \notin table_names}

\* qualified references table.column, here the tokens of the form "t.c"
QualifiedRef ==
    ("users.id" :> <<"users", "id">>) @@ ("users.ghost" :> <<"users", "ghost">>)

_extract_columns(s) ==
    {QualifiedRef[s[i]] : i \in {n \in 1..Len(s) : s[n] \in DOMAIN QualifiedRef}}

_validate_columns(columns, column_map) ==
    {c \in columns : c[1] \in DOMAIN column_map /\ c[2] \notin column_map[c[1]]}

_check_join_conditions(s, tables) ==
    Cardinality(tables) > 1 /\ "JOIN" \notin Range(s) /\ "WHERE" \notin Range(s)

_check_limit(s) ==
    /\ "LIMIT" \notin Range(s)
    /\ \E i \in 1..(Len(s) - 1) : s[i] = "SELECT" /\ s[i + 1] = "*"
    /\ Range(s) \cap {"COUNT(", "SUM(", "AVG(", "MAX(", "MIN("} = {}

\* FROM\s+\w+\s*,\s*\w+
_check_implicit_joins(s) ==
    \E i \in 1..Len(s) :
        /\ s[i] = "FROM"
        /\ LET j == SkipWs(s, i + 1)
               k == SkipWs(s, j + 1)
               m == SkipWs(s, k + 1)
           IN  /\ j <= Len(s) /\ IsWord(s[j])
               /\ k <= Len(s) /\ s[k] = ","
               /\ m <= Len(s) /\ IsWord(s[m])

SetToSeqOf(S, x) == [i \in 1..Cardinality(S) |-> x]

validate(s, table_names, column_map) ==
    LET danger_errors == _check_dangerous_operations(s)
        tables        == _extract_tables(s)
        table_errors  == _validate_tables(tables, table_names)
        col_errors    == IF table_errors = {}
                         THEN _validate_columns(_extract_columns(s), column_map)
                         ELSE {}
        errors        == danger_errors
                         \o SetToSeqOf(table_errors, "invalid_table")
                         \o SetToSeqOf(col_errors, "invalid_column")
        warnings      == (IF _check_join_conditions(s, tables)
                          THEN <<"cartesian_product">> ELSE <<>>)
                         \o (IF _check_limit(s) THEN <<"missing_limit">> ELSE <<>>)
                         \o (IF _check_implicit_joins(s) THEN <<"missing_join">> ELSE <<>>)
    IN  [is_valid |-> Len(errors) = 0, errors |-> errors, warnings |-> warnings]

\* ---- the statements and schemas the validator is applied to
DangerousTypes ==
    {"DROP", "DELETE", "INSERT", "UPDATE", "ALTER", "TRUNCATE", "CREATE", "GRANT", "REVOKE"}

TableOpts == {"users", "ghost"}

WhereOpts == {<<>>, <<"WHERE", "users.id">>, <<"NL", "WHERE", "users.id">>}

TermOpts == {<<>>, <<";">>}

StatementHeads ==
    UNION {
        {<<"DROP", k, t>> : k \in {"TABLE", "VIEW"}, t \in TableOpts},
        {<<"TRUNCATE", "TABLE", t>> : t \in TableOpts},
        {<<"INSERT", "INTO", t>> : t \in TableOpts},
        {<<"ALTER", "TABLE", t>> : t \in TableOpts},
        {<<"CREATE", k, t>> : k \in {"TABLE", "VIEW"}, t \in TableOpts},
        {<<"GRANT", "SELECT", "ON", t>> : t \in TableOpts},
        {<<"REVOKE", "SELECT", "ON", t>> : t \in TableOpts},
        {<<"DELETE", "FROM", t>> \o w : t \in TableOpts, w \in WhereOpts},
        {<<"UPDATE", t, "SET", "x">> \o w : t \in TableOpts, w \in WhereOpts},
        {<<"SELECT", "*", "FROM", t>> \o w : t \in TableOpts, w \in WhereOpts},
        {<<"SELECT", "users.ghost", "FROM", "users">>},
        {<<"SELECT", "*", "FROM", "users", ",", "orders">>},
        {<<"SELECT", "COUNT(", "*", ")", "FROM", t, "LIMIT", "5">> : t \in TableOpts}
    }

SqlInputs == {h \o e : h \in StatementHeads, e \in TermOpts}

SchemaOpts ==
    { [table_names |-> {}, column_map |-> <<>>],
      [table_names |-> {"users"}, column_map |-> [t \in {"users"} |-> {"id", "x"}]],
      [table_names |-> {"users", "orders"},
       column_map  |-> [t \in {"users", "orders"} |-> {"id", "x"}]] }

\* the statement type: the first word of the statement
StatementType(s) == IF SkipWs(s, 1) <= Len(s) THEN s[SkipWs(s, 1)] ELSE None

NoResult == [is_valid |-> FALSE, errors |-> <<>>, warnings |-> <<>>]

ValInit ==
    val \in [schema : SchemaOpts, sql : SqlInputs, pc : {"input"}, result : {NoResult}]

ValIdle == [schema |-> [table_names |-> {}, column_map |-> <<>>],
            sql |-> <<>>, pc |-> "input", result |-> NoResult]

Validate ==
    /\ val.pc = "input"
    /\ val' = [val EXCEPT !.pc = "validated", !.result =
                  validate(val.sql, val.schema.table_names, val.schema.column_map)]
    /\ UNCHANGED <<loop, plan, cm, now, vs, sc, emb, batch, store, orch, post, svm, exe, thr, mgr, conv, last>>

\* a new statement is handed to the same validator
ValidateNext ==
    /\ val.pc = "validated"
    /\ \E s \in SqlInputs : val' = [val EXCEPT !.sql = s, !.pc = "input"]
    /\ UNCHANGED <<loop, plan, cm, now, vs, sc, emb, batch, store, orch, post, svm, exe, thr, mgr, conv, last>>

(***************************************************************************)
(* ExecutionFeedbackLoop  (src/src/core/execution_feedback.py)             *)
(***************************************************************************)
\* the regular expressions of ERROR_PATTERNS, by error type, in dictionary order
ERROR_PATTERNS ==
    << [error_type |-> "table_not_found",
        patterns   |-> {"Table '' doesn't exist", "relation does not exist",
                        "Unknown table", "no such table"}],
       [error_type |-> "column_not_found",
        patterns   |-> {"Unknown column", "column does not exist",
                        "column not found", "no such column"}],
       [error_type |-> "ambiguous_column",
        patterns   |-> {"Column in is ambiguous", "column reference is ambiguous",
                        "ambiguous column name"}],
       [error_type |-> "syntax",
        patterns   |-> {"You have an error in your SQL syntax", "syntax error at or near",
                        "near : syntax error", "Incorrect syntax near"}],
       [error_type |-> "type_mismatch",
        patterns   |-> {"Incorrect value", "invalid input syntax for type",
                        "cannot cast", "type mismatch"}],
       [error_type |-> "timeout",
        patterns   |-> {"Query execution was interrupted", "statement timeout",
                        "Lock wait timeout exceeded"}] >>

\* the database messages of the model and the patterns each one contains
MessagePatterns ==
    ("no such table: usrs" :> {"no such table"})
    @@ ("syntax error at or near \"FORM\"" :> {"syntax error at or near"})
    @@ ("permission denied for table users" :> {})
    @@ ("could not connect to server: Connection refused" :> {})

ErrorMessages == DOMAIN MessagePatterns

PermissionMessages == {"permission denied for table users"}

ConnectionMessages == {"could not connect to server: Connection refused"}

RECURSIVE FirstPatternType(_, _)
FirstPatternType(error_message, i) ==
    IF i > Len(ERROR_PATTERNS) THEN "unknown"
    ELSE IF ERROR_PATTERNS[i].patterns \cap MessagePatterns[error_message] # {}
         THEN ERROR_PATTERNS[i].error_type
         ELSE FirstPatternType(error_message, i + 1)

\* the error type of the ErrorAnalysis
analyze_error(error_message) == FirstPatternType(error_message, 1)

\* appends to _correction_history and builds the ExecutionFeedback
create_feedback(history, query, error_message, handler_max_retries) ==
    LET h == Append(history, <<query, error_message>>)
    IN  [history  |-> h,
         feedback |-> [original_query |-> query,
                       error_type     |-> analyze_error(error_message),
                       error_message  |-> error_message,
                       retry_count    |-> Len(h),
                       max_retries    |-> handler_max_retries]]

\* a variant that never finds the same error twice
same_error_never(history) == FALSE

\* last_two[0][1] == last_two[1][1]
same_error_twice(history) ==
    Len(history) >= 2 /\ history[Len(history) - 1][2] = history[Len(history)][2]

should_retry(feedback, history) ==
    IF feedback.error_type \in {"permission", "connection"} THEN FALSE
    ELSE IF feedback.retry_count >= feedback.max_retries THEN FALSE
    ELSE IF same_error_twice(history) THEN FALSE
    ELSE TRUE

\* ---- one run of execute_with_feedback, an iteration of its for loop at a time
MaxRetries == 2

LoopQueries ==
    { <<"SELECT", "*", "FROM", "users">>,
      <<"SELECT", "*", "FROM", "ghost">>,
      <<"DROP", "TABLE", "users">> }

LoopSchema ==
    [table_names |-> {"users"}, column_map |-> [t \in {"users"} |-> {"id", "x"}]]

\* what SQLValidator says of a query under the loop's schema
ValidatorAccepts(q) == validate(q, LoopSchema.table_names, LoopSchema.column_map).is_valid

ExecOutcomes ==
    {[success |-> TRUE, error_message |-> None]}
    \cup {[success |-> FALSE, error_message |-> m] : m \in ErrorMessages}

\* _get_correction: a CorrectedQuery, None, or an exception
LlmCorrections ==
    {[kind |-> "sql", corrected_sql |-> q] : q \in LoopQueries}
    \cup {[kind |-> "none", corrected_sql |-> <<>>], [kind |-> "raise", corrected_sql |-> <<>>]}

LoopIdle(h, l) ==
    [pc |-> "idle", handler_max_retries |-> h, max_retries |-> l,
     correction_history |-> <<>>, current_query |-> <<>>, attempt |-> 0,
     feedback_history |-> <<>>, executions |-> <<>>, corrections |-> <<>>,
     result |-> [success |-> FALSE, error_message |-> None], runs |-> 0, left |-> None]

\* SQLExecutionFeedbackHandler(max_retries: int = 3)
DEFAULT_MAX_RETRIES == 3

LoopInit ==
    loop \in {LoopIdle(h, l) : h \in 0..MaxRetries \cup {DEFAULT_MAX_RETRIES},
                               l \in 0..MaxRetries}

MaxRuns == 2

\* execute_with_feedback, up to the for loop; left is the last error message
\* that the run before left in the handler's history
LoopStart ==
    /\ loop.pc \in {"idle", "returned"}
    /\ loop.runs < MaxRuns
    /\ \E q \in LoopQueries :
          loop' = [loop EXCEPT !.pc = "loop", !.correction_history = <<>>,
                               !.current_query = q, !.attempt = 0,
                               !.feedback_history = <<>>, !.executions = <<>>,
                               !.corrections = <<>>, !.runs = @ + 1,
                               !.result = [success |-> FALSE, error_message |-> None],
                               !.left = IF loop.correction_history = <<>> THEN None
                                        ELSE loop.correction_history[Len(loop.correction_history)][2]]
    /\ UNCHANGED <<val, plan, cm, now, vs, sc, emb, batch, store, orch, post, svm, exe, thr, mgr, conv, last>>

\* the loop after one iteration that did not return: the next iteration, or the
\* statements after the loop
AfterIteration(l, continue) ==
    IF continue /\ l.attempt + 1 <= l.max_retries
    THEN [l EXCEPT !.attempt = @ + 1]
    ELSE [l EXCEPT !.pc = "final"]

\* one iteration of "for attempt in range(self.max_retries + 1)"
LoopAttempt ==
    /\ loop.pc = "loop"
    /\ \E r \in ExecOutcomes, c \in LlmCorrections :
          LET ex == Append(loop.executions,
                           [query |-> loop.current_query, success |-> r.success,
                            error_message |-> r.error_message])
          IN  IF r.success
              THEN loop' = [loop EXCEPT !.pc = "returned", !.executions = ex,
                                        !.result = r]
              ELSE LET cf == create_feedback(loop.correction_history, loop.current_query,
                                             r.error_message, loop.handler_max_retries)
                       l1 == [loop EXCEPT !.executions = ex,
                                          !.correction_history = cf.history,
                                          !.feedback_history = Append(@, cf.feedback)]
                   IN  IF ~should_retry(cf.feedback, cf.history)
                       THEN loop' = AfterIteration(l1, FALSE)
                       ELSE LET l2 == [l1 EXCEPT !.corrections =
                                          Append(@, [failed_query |-> loop.current_query,
                                                     error_message |-> r.error_message,
                                                     answer |-> c])]
                            IN  IF c.kind = "sql" /\ c.corrected_sql # loop.current_query
                                THEN loop' = AfterIteration(
                                        [l2 EXCEPT !.current_query = c.corrected_sql], TRUE)
                                ELSE loop' = AfterIteration(l2, FALSE)
    /\ UNCHANGED <<val, plan, cm, now, vs, sc, emb, batch, store, orch, post, svm, exe, thr, mgr, conv, last>>

\* "Return last state": the query is executed once more and that result returned
LoopFinal ==
    /\ loop.pc = "final"
    /\ \E r \in ExecOutcomes :
          loop' = [loop EXCEPT !.pc = "returned", !.result = r,
                               !.executions = Append(@,
                                   [query |-> loop.current_query, success |-> r.success,
                                    error_message |-> r.error_message])]
    /\ UNCHANGED <<val, plan, cm, now, vs, sc, emb, batch, store, orch, post, svm, exe, thr, mgr, conv, last>>


(***************************************************************************)
(* QueryPatternDetector and QueryPlanCache  (src/src/core/query_plan_cache.py) *)
(***************************************************************************)
\* A question is the sequence of its lower-case words; a number is the word of its
\* digits.  A regular expression is a sequence of word sets, searched for at every
\* position (at the first only when anchored).
Digits == {"5", "20"}

Vocabulary ==
    Digits \cup {"top", "first", "best", "products", "by", "price", "how", "many",
                 "cheap", "list", "all"}

AggWords == {"total", "sum", "average", "avg", "mean", "min", "max", "minimum", "maximum"}

TimeUnits == {"day", "days", "week", "weeks", "month", "months", "year", "years"}

Rx(anchored, phrase) == [anchored |-> anchored, phrase |-> phrase]

PhraseAt(q, i, ph) ==
    /\ i + Len(ph) - 1 <= Len(q)
    /\ \A k \in 1..Len(ph) : q[i + k - 1] \in ph[k]

\* re.search(regex, question_lower)
re_search(rx, q) ==
    IF rx.anchored THEN PhraseAt(q, 1, rx.phrase)
    ELSE \E i \in 1..Len(q) : PhraseAt(q, i, rx.phrase)

\* match.group(1) of the leftmost match: the word at place cap of the phrase
re_group(ph, cap, q) ==
    LET i == CHOOSE n \in 1..Len(q) :
                 PhraseAt(q, n, ph) /\ \A m \in 1..(n - 1) : ~PhraseAt(q, m, ph)
    IN  q[i + cap - 1]

\* kw in question_lower, for a keyword of one or more words
KeywordIn(kw, q) ==
    \E i \in 1..Len(q) :
        i + Len(kw) - 1 <= Len(q) /\ \A k \in 1..Len(kw) : q[i + k - 1] = kw[k]

NoExtract == <<>>

PATTERNS ==
    << [pattern  |-> "top_n",
        regex    |-> {Rx(FALSE, <<{w}, Digits>>) :
                         w \in {"top", "first", "best", "highest", "lowest"}},
        keywords |-> {<<"top">>, <<"best">>, <<"highest">>, <<"lowest">>, <<"first">>,
                      <<"leading">>},
        extract  |-> <<[name |-> "limit", cap |-> 2,
                        phrase |-> <<{"top", "first", "best", "highest", "lowest"},
                                     Digits>>]>>],
       [pattern  |-> "count",
        regex    |-> {Rx(FALSE, <<{"how"}, {"many"}>>), Rx(FALSE, <<{"count"}, {"of"}>>),
                      Rx(FALSE, <<{"number"}, {"of"}>>), Rx(FALSE, <<{"total"}, {"count"}>>)},
        keywords |-> {<<"how", "many">>, <<"count">>, <<"number", "of">>,
                      <<"total", "number">>},
        extract  |-> NoExtract],
       [pattern  |-> "aggregate",
        regex    |-> {Rx(FALSE, <<AggWords, Vocabulary>>),
                      Rx(FALSE, <<{"what"}, {"is"}, {"the"}, {"total", "sum", "average"}>>)},
        keywords |-> {<<"total">>, <<"sum">>, <<"average">>, <<"avg">>, <<"mean">>,
                      <<"min">>, <<"max">>},
        extract  |-> <<[name |-> "agg_func", cap |-> 1, phrase |-> <<AggWords>>]>>],
       [pattern  |-> "list",
        regex    |-> {Rx(TRUE, <<{"list", "show", "display", "get", "fetch"}, Vocabulary>>),
                      Rx(TRUE, <<{"what"}, {"are"}>>), Rx(TRUE, <<{"give"}, {"me"}>>)},
        keywords |-> {<<"list">>, <<"show">>, <<"display">>, <<"all">>, <<"get", "all">>},
        extract  |-> NoExtract],
       [pattern  |-> "time_range",
        regex    |-> {Rx(FALSE, <<{"in", "from", "during"}, {"last", "past"}, Digits,
                                  TimeUnits>>),
                      Rx(FALSE, <<{"in", "from", "during"}, {"the"}, {"last", "past"},
                                  Digits, TimeUnits>>),
                      Rx(FALSE, <<{"this", "current"}, TimeUnits>>),
                      Rx(FALSE, <<{"yesterday", "today"}>>),
                      Rx(FALSE, <<{"last"}, {"week", "weeks", "month", "months"}>>)},
        keywords |-> {<<"last">>, <<"past">>, <<"recent">>, <<"this", "week">>,
                      <<"this", "month">>, <<"yesterday">>, <<"today">>},
        extract  |-> <<[name |-> "time_value", cap |-> 2,
                        phrase |-> <<{"last", "past"}, Digits>>],
                       [name |-> "time_unit", cap |-> 3,
                        phrase |-> <<{"last", "past"}, Digits, TimeUnits>>]>>],
       [pattern  |-> "filter",
        regex    |-> {Rx(FALSE, <<{"where", "with", "having"}, Vocabulary>>),
                      Rx(FALSE, <<{"that"}, {"have", "has"}, Vocabulary>>),
                      Rx(FALSE, <<{"greater", "less", "more", "fewer"}, {"than"}>>),
                      Rx(FALSE, <<{"equal", "equals"}, {"to"}>>)},
        keywords |-> {<<"where">>, <<"with">>, <<"having">>, <<"greater", "than">>,
                      <<"less", "than">>, <<"equal">>},
        extract  |-> NoExtract],
       [pattern  |-> "group_by",
        regex    |-> {Rx(FALSE, <<{"by", "per"}, Vocabulary>>),
                      Rx(FALSE, <<{"for"}, {"each"}, Vocabulary>>),
                      Rx(FALSE, <<{"breakdown"}, {"by"}>>)},
        keywords |-> {<<"by">>, <<"per">>, <<"each">>, <<"grouped">>, <<"breakdown">>},
        extract  |-> <<[name |-> "group_column", cap |-> 2,
                        phrase |-> <<{"by", "per"}, Vocabulary>>]>>],
       [pattern  |-> "exists",
        regex    |-> {Rx(FALSE, <<{"that", "who", "which"}, {"have", "has", "had", "never"}>>),
                      Rx(FALSE, <<{"without"}, Vocabulary>>)},
        keywords |-> {<<"never">>, <<"without">>, <<"don't", "have">>, <<"no", "orders">>,
                      <<"no", "purchases">>},
        extract  |-> NoExtract],
       [pattern  |-> "ranking",
        regex    |-> {Rx(FALSE, <<{"rank", "ranked", "ranking"}, {"by"}>>),
                      Rx(FALSE, <<{"order", "ordered"}, {"by"}>>)},
        keywords |-> {<<"rank">>, <<"ranked">>, <<"ranking">>, <<"order", "by">>,
                      <<"sorted">>},
        extract  |-> NoExtract],
       [pattern  |-> "comparison",
        regex    |-> {Rx(FALSE, <<{"compare"}, Vocabulary>>),
                      Rx(FALSE, <<{"versus", "vs", "vs."}, Vocabulary>>),
                      Rx(FALSE, <<{"difference"}, {"between"}>>)},
        keywords |-> {<<"compare">>, <<"versus">>, <<"vs">>, <<"difference">>,
                      <<"comparison">>},
        extract  |-> NoExtract] >>

\* confidences are in tenths: 0.8 for a regular expression, 0.3 a keyword up to 0.6
PatternConfidence(cfg, q) ==
    LET rconf == IF \E rx \in cfg.regex : re_search(rx, q) THEN 8 ELSE 0
        keyword_matches == Cardinality({kw \in cfg.keywords : KeywordIn(kw, q)})
    IN  IF keyword_matches > 0 THEN Max(rconf, Min(3 * keyword_matches, 6)) ELSE rconf

EmptyParams == [k \in {} |-> ""]

ExtractParams(cfg, q) ==
    LET hit == {i \in 1..Len(cfg.extract) : re_search(Rx(FALSE, cfg.extract[i].phrase), q)}
    IN  [nm \in {cfg.extract[i].name : i \in hit} |->
            LET i == CHOOSE n \in hit : cfg.extract[n].name = nm
            IN  re_group(cfg.extract[i].phrase, cfg.extract[i].cap, q)]

UnknownMatch == [pattern |-> "unknown", confidence |-> 0, extracted_params |-> EmptyParams]

RECURSIVE BestMatch(_, _, _)
BestMatch(q, i, best) ==
    IF i > Len(PATTERNS) THEN best
    ELSE LET confidence == PatternConfidence(PATTERNS[i], q)
         IN  BestMatch(q, i + 1,
                 IF confidence > best.confidence
                 THEN [pattern |-> PATTERNS[i].pattern, confidence |-> confidence,
                       extracted_params |-> ExtractParams(PATTERNS[i], q)]
                 ELSE best)

detect_pattern(q) ==
    LET best == BestMatch(q, 1, UnknownMatch)
    IN  IF best.confidence < 3 THEN UnknownMatch ELSE best

\* sorted(tables), by the order of the table names
TableRank == ("orders" :> 1) @@ ("products" :> 2)

RECURSIVE sorted(_)
sorted(t) ==
    IF Len(t) <= 1 THEN t
    ELSE LET m == CHOOSE i \in 1..Len(t) :
                      \A j \in 1..Len(t) : TableRank[t[i]] <= TableRank[t[j]]
         IN  <<t[m]>> \o sorted([i \in 1..(Len(t) - 1) |-> IF i < m THEN t[i] ELSE t[i + 1]])

\* the key is the digest of this data; distinct data are taken to have distinct digests
_generate_cache_key(pattern, tables, params) ==
    [pattern |-> pattern, tables |-> sorted(tables),
     key_params |-> [k \in DOMAIN params \cap {"agg_func", "group_column"} |-> params[k]]]

IsNumber(tok) == tok \in Digits \cup {"10", "7"}

CompareOps == {"<", ">", "=", "<=", ">="}

\* SQL as a sequence of words; LIMIT n, INTERVAL n UNIT and (with a threshold
\* parameter) the number after a comparison become placeholders
_normalize_sql_to_template(sql, params) ==
    LET has_limit    == \E i \in 2..Len(sql) : sql[i - 1] = "LIMIT" /\ IsNumber(sql[i])
        has_interval == \E i \in 3..Len(sql) :
                           sql[i - 2] = "INTERVAL" /\ IsNumber(sql[i - 1]) /\ sql[i] \in TimeUnits
        has_thresh   == /\ \E i \in 2..Len(sql) : sql[i - 1] \in CompareOps /\ IsNumber(sql[i])
                        /\ "threshold" \in DOMAIN params
        word(i) ==
            IF has_limit /\ i > 1 /\ sql[i - 1] = "LIMIT" /\ IsNumber(sql[i]) THEN "{limit}"
            ELSE IF /\ i > 1 /\ i < Len(sql) /\ sql[i - 1] = "INTERVAL"
                    /\ IsNumber(sql[i]) /\ sql[i + 1] \in TimeUnits THEN "{time_value}"
            ELSE IF /\ i > 2 /\ sql[i - 2] = "INTERVAL" /\ IsNumber(sql[i - 1])
                    /\ sql[i] \in TimeUnits THEN "{time_unit}"
            ELSE IF has_thresh /\ i > 1 /\ sql[i - 1] \in CompareOps /\ IsNumber(sql[i])
                 THEN "{threshold}"
            ELSE sql[i]
    IN  [template     |-> [i \in 1..Len(sql) |-> word(i)],
         placeholders |-> (IF has_limit THEN {"limit"} ELSE {})
                          \cup (IF has_interval
                                THEN {"date_value", "time_value", "time_unit"} ELSE {})
                          \cup (IF has_thresh THEN {"threshold"} ELSE {})]

\* int(...) and str(...) of the numbers of the model
ParseInt == ("5" :> 5) @@ ("20" :> 20) @@ ("10" :> 10) @@ ("7" :> 7)

IntToStr == (5 :> "5") @@ (20 :> "20") @@ (10 :> "10") @@ (7 :> "7")

IntValue(n) == [kind |-> "int", int |-> n, str |-> ""]

StrValue(w) == [kind |-> "str", int |-> 0, str |-> w]

str(value) == IF value.kind = "int" THEN IntToStr[value.int] ELSE value.str

\* time_match.group(2).upper(): the unit without its plural, in capitals
upper ==
    [u \in TimeUnits |->
        IF u \in {"day", "days"} THEN "DAY" ELSE IF u \in {"week", "weeks"} THEN "WEEK"
        ELSE IF u \in {"month", "months"} THEN "MONTH" ELSE "YEAR"]

\* the runtime parameters: those read off the question, then match.extracted_params
_extract_runtime_params(q, match, p) ==
    LET limit_ph == <<{"top", "first", "best"}, Digits>>
        time_ph  == <<{"last", "past"}, Digits, TimeUnits>>
        own == [k \in (IF "limit" \in p.placeholders THEN {"limit"} ELSE {})
                      \cup (IF "time_value" \in p.placeholders
                            THEN {"time_value", "time_unit"} ELSE {}) |->
                 IF k = "limit"
                 THEN IF re_search(Rx(FALSE, limit_ph), q)
                      THEN IntValue(ParseInt[re_group(limit_ph, 2, q)]) ELSE IntValue(10)
                 ELSE IF k = "time_value"
                 THEN IF re_search(Rx(FALSE, time_ph), q)
                      THEN IntValue(ParseInt[re_group(time_ph, 2, q)]) ELSE IntValue(7)
                 ELSE IF re_search(Rx(FALSE, time_ph), q)
                      THEN StrValue(upper[re_group(time_ph, 3, q)]) ELSE StrValue("DAY")]
    IN  [k \in DOMAIN own \cup DOMAIN match.extracted_params |->
            IF k \in DOMAIN match.extracted_params
            THEN StrValue(match.extracted_params[k]) ELSE own[k]]

fill_template(p, params) ==
    [i \in 1..Len(p.sql_template) |->
        IF \E k \in DOMAIN params : p.sql_template[i] = "{" \o k \o "}"
        THEN str(params[CHOOSE k \in DOMAIN params : p.sql_template[i] = "{" \o k \o "}"])
        ELSE p.sql_template[i]]

\* ---- the cache: an OrderedDict, oldest entry first; the clock counts hours
PlanMaxSize == 2

TTL_HOURS == 24

MIN_CONFIDENCE == 7

TickHours == 13

MaxClock == 26

MaxPlanOps == 2

PatternNames == {PATTERNS[i].pattern : i \in 1..Len(PATTERNS)}

PlanQuestions ==
    { <<"top", "5", "products", "by", "price">>, <<"top", "20", "products", "by", "price">>,
      <<"products", "by", "price">>, <<"how", "many", "products">>,
      <<"best", "products">>, <<"cheap", "products">> }

\* the SQL generated for a question: with the LIMIT the question asks for, or without
PlanSqls(q) ==
    {<<"SELECT", "*", "FROM", "products", "ORDER", "BY", "price">>}
    \cup (IF re_search(Rx(FALSE, <<{"top"}, Digits>>), q)
          THEN {<<"SELECT", "*", "FROM", "products", "ORDER", "BY", "price", "LIMIT",
                  re_group(<<{"top"}, Digits>>, 2, q)>>}
          ELSE {})

PutTables == {<<"products">>, <<"products", "orders">>}

\* tables_hint: None (the default), or a list
HintTables == {<<>>, <<"products">>, <<"orders", "products">>}

PlanConfidences == {9, 5}

\* what the cache remembers of a call, for the properties: the call and its answer
PlanLog(op, q, tables, sql, confidence, ok, filled) ==
    [op |-> op, question |-> q, tables |-> tables, sql |-> sql, confidence |-> confidence,
     ok |-> ok, filled |-> filled]

NoPlanOp == PlanLog("none", <<>>, <<>>, <<>>, 0, FALSE, <<>>)

\* the pattern match of each question of the model
Detected == [q \in PlanQuestions |-> detect_pattern(q)]

\* QueryPlanCache(max_size): raised tells that the last call raised, evicted
\* holds the plans its popitem calls removed
PlanNew(max_size) ==
    [cache |-> <<>>, max_size |-> max_size, raised |-> FALSE, evicted |-> <<>>,
     clock |-> 0, hits |-> 0,
     misses |-> 0, pattern_stats |-> [p \in PatternNames |-> 0], ops |-> 0,
     prev |-> NoPlanOp, last |-> NoPlanOp]

Logged(pl, entry) ==
    [pl EXCEPT !.ops = @ + 1, !.prev = pl.last, !.last = entry, !.raised = FALSE,
               !.evicted = <<>>]

PlanInit == plan = PlanNew(PlanMaxSize)

PlanIdle == PlanNew(PlanMaxSize)

KeyIndex(cache, key) ==
    IF \E i \in 1..Len(cache) : cache[i].key = key
    THEN CHOOSE i \in 1..Len(cache) : cache[i].key = key
    ELSE 0

RemoveAt(seq, i) == [j \in 1..(Len(seq) - 1) |-> IF j < i THEN seq[j] ELSE seq[j + 1]]

\* a variant that leaves the plan where it is
move_nowhere(cache, i) == cache

\* self._cache.move_to_end(cache_key)
move_to_end(cache, i) == Append(RemoveAt(cache, i), cache[i])

\* QueryPlanCache.get
PlanCacheGet(pl, q, tables_hint) ==
    LET match == Detected[q]
        key   == _generate_cache_key(match.pattern, tables_hint, match.extracted_params)
        i     == KeyIndex(pl.cache, key)
        miss  == PlanLog("get", q, tables_hint, <<>>, 0, FALSE, <<>>)
    IN  IF match.pattern = "unknown" \/ match.confidence < MIN_CONFIDENCE
        THEN Logged([pl EXCEPT !.misses = @ + 1], miss)
        ELSE IF i = 0
        THEN Logged([pl EXCEPT !.misses = @ + 1], miss)
        ELSE IF pl.clock - pl.cache[i].plan.created_at > TTL_HOURS
        THEN Logged([pl EXCEPT !.cache = RemoveAt(@, i), !.misses = @ + 1], miss)
        ELSE LET p1 == [pl.cache[i].plan EXCEPT !.hit_count = @ + 1,
                                                !.last_used = pl.clock]
                 runtime_params == _extract_runtime_params(q, match, p1)
             IN  Logged([pl EXCEPT
                    !.cache = move_to_end([@ EXCEPT ![i] = [key |-> key, plan |-> p1]], i),
                    !.hits = @ + 1,
                    !.pattern_stats[match.pattern] = @ + 1],
                    PlanLog("get", q, tables_hint, <<>>, 0, TRUE,
                            fill_template(p1, runtime_params)))

PlanGet ==
    /\ plan.ops < MaxPlanOps
    /\ \E q \in PlanQuestions, tables_hint \in HintTables :
          plan' = PlanCacheGet(plan, q, tables_hint)
    /\ UNCHANGED <<val, loop, cm, now, vs, sc, emb, batch, store, orch, post, svm, exe, thr, mgr, conv, last>>

\* while len(self._cache) >= self.max_size: self._cache.popitem(last=False)
RECURSIVE EvictToFit(_, _)
EvictToFit(cache, max_size) ==
    IF Len(cache) >= max_size /\ cache # <<>> THEN EvictToFit(Tail(cache), max_size)
    ELSE cache

\* QueryPlanCache.put; with max_size <= 0 the loop empties the cache and
\* popitem raises KeyError on the empty dictionary
put(pl, q, sql, tables_used, confidence) ==
    LET match == Detected[q]
        key   == _generate_cache_key(match.pattern, tables_used, match.extracted_params)
        t     == _normalize_sql_to_template(sql, match.extracted_params)
        p1    == [pattern |-> match.pattern, sql_template |-> t.template,
                  parameters |-> match.extracted_params, tables_used |-> tables_used,
                  confidence |-> confidence, created_at |-> pl.clock,
                  hit_count |-> 0, last_used |-> pl.clock,
                  placeholders |-> t.placeholders]
    IN  IF match.pattern = "unknown"
        THEN Logged(pl, PlanLog("put", q, tables_used, sql, confidence, FALSE, <<>>))
        ELSE IF KeyIndex(pl.cache, key) # 0
        THEN Logged(pl, PlanLog("put", q, tables_used, sql, confidence, TRUE, <<>>))
        ELSE IF pl.max_size <= 0
        THEN [Logged([pl EXCEPT !.cache = <<>>],
                     PlanLog("put", q, tables_used, sql, confidence, FALSE, <<>>))
                EXCEPT !.raised = TRUE, !.evicted = pl.cache]
        ELSE [Logged([pl EXCEPT !.cache = Append(EvictToFit(@, pl.max_size),
                                                 [key |-> key, plan |-> p1])],
                     PlanLog("put", q, tables_used, sql, confidence, TRUE, <<>>))
                EXCEPT !.evicted =
                    SubSeq(pl.cache, 1,
                           Len(pl.cache) - Len(EvictToFit(pl.cache, pl.max_size)))]

PlanPut ==
    /\ plan.ops < MaxPlanOps
    /\ \E q \in PlanQuestions, tables_used \in PutTables, confidence \in PlanConfidences :
       \E sql \in PlanSqls(q) :
          plan' = put(plan, q, sql, tables_used, confidence)
    /\ UNCHANGED <<val, loop, cm, now, vs, sc, emb, batch, store, orch, post, svm, exe, thr, mgr, conv, last>>

\* QueryPlanCache.invalidate: every plan, or the plans of one pattern
PlanCacheInvalidate(pl, pattern) ==
    Logged([pl EXCEPT !.cache = IF pattern = None THEN <<>>
                                ELSE SelectSeq(@, LAMBDA e : e.plan.pattern # pattern)],
           PlanLog("invalidate", <<>>, <<>>, <<>>, 0, TRUE, <<>>))

\* time passes
PlanTick ==
    /\ plan.clock + TickHours <= MaxClock
    /\ plan' = [plan EXCEPT !.clock = @ + TickHours]
    /\ UNCHANGED <<val, loop, cm, now, vs, sc, emb, batch, store, orch, post, svm, exe, thr, mgr, conv, last>>

\* ---- the cache of each size under put, get and invalidate; an hour passes
\* before every call, or more than the TTL before a get
LruMaxOps == 4

DEFAULT_MAX_SIZE == 500

LruMaxSizes == {0, 1, 2, DEFAULT_MAX_SIZE}

LruQuestions ==
    { <<"top", "5", "products", "by", "price">>, <<"products", "by", "price">>,
      <<"how", "many", "products">> }

LruSql == <<"SELECT", "*", "FROM", "products", "ORDER", "BY", "price">>

\* invalidate(): None for every plan, or a pattern
LruPatterns == {None, "top_n", "count"}

Later(pl, hours) == [pl EXCEPT !.clock = @ + hours]

LruInit == plan \in {PlanNew(max_size) : max_size \in LruMaxSizes}

LruPut ==
    /\ plan.ops < LruMaxOps
    /\ \E q \in LruQuestions, tables_used \in PutTables :
          plan' = put(Later(plan, 1), q, LruSql, tables_used, 9)
    /\ UNCHANGED <<val, loop, cm, now, vs, sc, emb, batch, store, orch, post, svm, exe, thr, mgr, conv, last>>

LruGet ==
    /\ plan.ops < LruMaxOps
    /\ \E q \in LruQuestions, tables_hint \in PutTables, hours \in {1, TTL_HOURS + 1} :
          plan' = PlanCacheGet(Later(plan, hours), q, tables_hint)
    /\ UNCHANGED <<val, loop, cm, now, vs, sc, emb, batch, store, orch, post, svm, exe, thr, mgr, conv, last>>

LruInvalidate ==
    /\ plan.ops < LruMaxOps
    /\ \E pattern \in LruPatterns : plan' = PlanCacheInvalidate(Later(plan, 1), pattern)
    /\ UNCHANGED <<val, loop, cm, now, vs, sc, emb, batch, store, orch, post, svm, exe, thr, mgr, conv, last>>

(***************************************************************************)
(* CacheManager with the in-process cache  (src/src/core/cache_manager.py) *)
(***************************************************************************)
\* cm = [enabled, local, current_schema_version, metrics]; local maps a full key,
\* <<level, key>>, to its CacheEntry.  Times are seconds on the clock now.
CacheLevels == {"system", "schema", "examples", "prompt", "sql", "semantic"}

SchemaLevels == {"schema", "examples", "prompt"}

get_ttl(level) ==
    CASE level = "system"   -> 7200
      [] level = "schema"   -> 3600
      [] level = "examples" -> 3600
      [] level = "prompt"   -> 1800
      [] level = "sql"      -> 600
      [] level = "semantic" -> 1800
      [] OTHER              -> 1800

\* the truth value of an Optional[str]
Truthy(x) == x \notin {None, ""}

_make_key(key, level) == <<level, key>>

\* a variant that takes an entry to be expired at its deadline already
is_expired_at_deadline(entry, t) == t >= entry.expires_at

is_expired(entry, t) == t > entry.expires_at

CmNew(enabled) ==
    [enabled |-> enabled, local |-> [k \in {} |-> None], current_schema_version |-> None,
     metrics |-> [hits |-> 0, misses |-> 0, evictions |-> 0, total_entries |-> 0,
                  hits_by_level |-> [l \in CacheLevels |-> 0]]]

\* a variant that leaves the entry in place
PopNothing(local, full_key) == local

Pop(local, full_key) == [k \in DOMAIN local \ {full_key} |-> local[k]]

\* a variant that counts nothing
record_nothing(c) == c

record_miss(c) == [c EXCEPT !.metrics.misses = @ + 1]

record_hit(c, level) ==
    [c EXCEPT !.metrics.hits = @ + 1, !.metrics.hits_by_level[level] = @ + 1]

\* CacheMetrics.reset; total_entries is left as it is
reset(metrics) ==
    [metrics EXCEPT !.hits = 0, !.misses = 0, !.evictions = 0,
                    !.hits_by_level = [l \in CacheLevels |-> 0]]

\* set: ttl 0 stands for a ttl of None or 0, which both take the level's default
set(c, key, value, level, ttl, schema_version, t) ==
    IF ~c.enabled THEN [cm |-> c, ok |-> FALSE]
    ELSE LET full_key == _make_key(key, level)
             ttl1  == IF ttl # 0 THEN ttl ELSE get_ttl(level)
             entry == [key |-> key, value |-> value, level |-> level, created_at |-> t,
                       expires_at |-> t + ttl1, hit_count |-> 0,
                       schema_version |-> IF Truthy(schema_version) THEN schema_version
                                          ELSE c.current_schema_version]
         IN  [cm |-> [c EXCEPT !.local = [k \in DOMAIN c.local \cup {full_key} |->
                                             IF k = full_key THEN entry ELSE c.local[k]],
                               !.metrics.total_entries = @ + 1],
              ok |-> TRUE]

invalidate(c, key, level) ==
    IF ~c.enabled THEN c
    ELSE [c EXCEPT !.local = Pop(@, _make_key(key, level)), !.metrics.evictions = @ + 1]

get(c, key, level, check_schema_version, t) ==
    LET full_key == _make_key(key, level)
        miss(c1) == [cm |-> c1, hit |-> FALSE, value |-> None]
    IN  IF ~c.enabled THEN miss(c)
        ELSE IF full_key \notin DOMAIN c.local THEN miss(record_miss(c))
        ELSE LET entry == c.local[full_key]
             IN  IF is_expired(entry, t)
                 THEN miss(record_miss([c EXCEPT !.local = Pop(@, full_key)]))
                 ELSE IF /\ check_schema_version /\ level \in SchemaLevels
                         /\ Truthy(entry.schema_version)
                         /\ entry.schema_version # c.current_schema_version
                 THEN miss(record_miss(invalidate(c, key, level)))
                 ELSE [cm    |-> record_hit([c EXCEPT !.local[full_key].hit_count = @ + 1],
                                            level),
                       hit   |-> TRUE,
                       value |-> entry.value]

invalidate_level(c, level) ==
    IF ~c.enabled THEN c
    ELSE LET keys_to_delete == {k \in DOMAIN c.local : k[1] = level}
         IN  [c EXCEPT !.local = [k \in DOMAIN c.local \ keys_to_delete |-> c.local[k]],
                       !.metrics.evictions = @ + Cardinality(keys_to_delete)]

invalidate_schema_dependent(c) ==
    invalidate_level(invalidate_level(invalidate_level(c, "schema"), "examples"), "prompt")

\* a variant that records the new version and leaves the dependent entries in place
update_schema_version_keeping_entries(c, version) ==
    IF version = c.current_schema_version THEN [cm |-> c, changed |-> FALSE]
    ELSE [cm |-> [c EXCEPT !.current_schema_version = version], changed |-> TRUE]

update_schema_version(c, version) ==
    IF version = c.current_schema_version THEN [cm |-> c, changed |-> FALSE]
    ELSE LET c1 == [c EXCEPT !.current_schema_version = version]
         IN  [cm |-> IF c.current_schema_version # None
                     THEN invalidate_schema_dependent(c1) ELSE c1,
              changed |-> TRUE]

clear_all(c) ==
    IF ~c.enabled THEN c
    ELSE [c EXCEPT !.local = [k \in {} |-> None],
                   !.metrics.evictions = @ + Cardinality(DOMAIN c.local),
                   !.metrics.total_entries = 0]

\* ---- the calls made on a CacheManager, and what each was given and answered
TickSeconds == 1000

MaxNow == 2000

MaxCmOps == 4

CmKeys == {"k1"}

CmLevelsUsed == {"schema", "prompt", "sql"}

Versions == {"v1", "v2"}

TtlOpts == {0, 1000}

CmValues == {"a"}

\* the entry of the key is there, has not expired, and carries a schema
\* version other than the cache's current one
IsStale(c, key, level, t) ==
    LET full_key == _make_key(key, level)
    IN  /\ full_key \in DOMAIN c.local
        /\ ~is_expired(c.local[full_key], t)
        /\ Truthy(c.local[full_key].schema_version)
        /\ c.local[full_key].schema_version # c.current_schema_version

\* a call, its answer, the time, for update_schema_version the cache it found,
\* and for get whether the entry it found was stale
CmLog(op, key, level, ttl, version, flag, ok) ==
    [op |-> op, key |-> key, level |-> level, ttl |-> ttl, version |-> version,
     flag |-> flag, ok |-> ok, value |-> None, at |-> now, stale |-> FALSE,
     before |-> IF op = "update_schema_version"
                THEN [local |-> cm.local, current |-> cm.current_schema_version]
                ELSE [local |-> [k \in {} |-> None], current |-> None]]

NoCmOp ==
    [op |-> "none", key |-> None, level |-> None, ttl |-> 0, version |-> None,
     flag |-> FALSE, ok |-> FALSE, value |-> None, at |-> 0, stale |-> FALSE,
     before |-> [local |-> [k \in {} |-> None], current |-> None]]

\* per level, the latest Set of the key made with a ttl and without a version
\* of its own that no Set, invalidation or change of schema version has followed
NoLive == [live |-> FALSE, value |-> None, expires_at |-> 0]

\* gets counts the calls of get since the metrics were reset
LastIdle == [ops |-> 0, prev |-> NoCmOp, cur |-> NoCmOp,
             live |-> [l \in CacheLevels |-> NoLive], gets |-> 0]

CmInit == cm \in {CmNew(e) : e \in BOOLEAN} /\ now = 0 /\ last = LastIdle

CmIdle == CmNew(TRUE)

\* cur is the latest call; prev is the call before it when that was an
\* update_schema_version
CmLogged(entry) ==
    [ops  |-> last.ops + 1,
     prev |-> IF last.cur.op = "update_schema_version" THEN last.cur ELSE NoCmOp,
     cur  |-> entry,
     live |-> [l \in CacheLevels |->
                 IF entry.op = "set" /\ entry.level = l
                 THEN (IF entry.ok /\ entry.ttl > 0 /\ entry.version = None
                       THEN [live |-> TRUE, value |-> entry.value,
                             expires_at |-> entry.at + entry.ttl]
                       ELSE NoLive)
                 ELSE IF \/ entry.op \in {"invalidate", "invalidate_level"} /\ entry.level = l
                         \/ entry.op = "clear_all"
                         \/ entry.op = "update_schema_version" /\ entry.ok /\ l \in SchemaLevels
                 THEN NoLive
                 ELSE last.live[l]],
     gets |-> IF entry.op = "get" THEN last.gets + 1
              ELSE IF entry.op = "reset" THEN 0 ELSE last.gets]

CmSet ==
    /\ last.ops < MaxCmOps
    /\ \E key \in CmKeys, value \in CmValues, level \in CmLevelsUsed, ttl \in TtlOpts,
          schema_version \in {None} \cup Versions :
          LET r == set(cm, key, value, level, ttl, schema_version, now)
          IN  /\ cm' = r.cm
              /\ last' = CmLogged([CmLog("set", key, level, ttl, schema_version, FALSE, r.ok)
                                     EXCEPT !.value = value])
    /\ UNCHANGED <<val, loop, plan, now, vs, sc, emb, batch, store, orch, post, svm, exe, thr, mgr, conv>>

CmGet ==
    /\ last.ops < MaxCmOps
    /\ \E key \in CmKeys, level \in CmLevelsUsed, check_schema_version \in BOOLEAN :
          LET r == get(cm, key, level, check_schema_version, now)
          IN  /\ cm' = r.cm
              /\ last' = CmLogged([CmLog("get", key, level, 0, None, check_schema_version,
                                         r.hit) EXCEPT !.value = r.value,
                                                       !.stale = IsStale(cm, key, level, now)])
    /\ UNCHANGED <<val, loop, plan, now, vs, sc, emb, batch, store, orch, post, svm, exe, thr, mgr, conv>>

CmInvalidate ==
    /\ last.ops < MaxCmOps
    /\ \E key \in CmKeys, level \in CmLevelsUsed :
          /\ cm' = invalidate(cm, key, level)
          /\ last' = CmLogged(CmLog("invalidate", key, level, 0, None, FALSE, cm.enabled))
    /\ UNCHANGED <<val, loop, plan, now, vs, sc, emb, batch, store, orch, post, svm, exe, thr, mgr, conv>>

CmInvalidateLevel ==
    /\ last.ops < MaxCmOps
    /\ \E level \in CmLevelsUsed :
          /\ cm' = invalidate_level(cm, level)
          /\ last' = CmLogged(CmLog("invalidate_level", None, level, 0, None, FALSE,
                                    cm.enabled))
    /\ UNCHANGED <<val, loop, plan, now, vs, sc, emb, batch, store, orch, post, svm, exe, thr, mgr, conv>>

CmUpdateSchemaVersion ==
    /\ last.ops < MaxCmOps
    /\ \E version \in Versions :
          LET r == update_schema_version(cm, version)
          IN  /\ cm' = r.cm
              /\ last' = CmLogged(CmLog("update_schema_version", None, None, 0, version,
                                        FALSE, r.changed))
    /\ UNCHANGED <<val, loop, plan, now, vs, sc, emb, batch, store, orch, post, svm, exe, thr, mgr, conv>>

CmClearAll ==
    /\ last.ops < MaxCmOps
    /\ cm' = clear_all(cm)
    /\ last' = CmLogged(CmLog("clear_all", None, None, 0, None, FALSE, cm.enabled))
    /\ UNCHANGED <<val, loop, plan, now, vs, sc, emb, batch, store, orch, post, svm, exe, thr, mgr, conv>>

\* self.metrics.reset(), once some get was counted
CmReset ==
    /\ last.ops < MaxCmOps /\ last.gets > 0
    /\ cm' = [cm EXCEPT !.metrics = reset(@)]
    /\ last' = CmLogged(CmLog("reset", None, None, 0, None, FALSE, TRUE))
    /\ UNCHANGED <<val, loop, plan, now, vs, sc, emb, batch, store, orch, post, svm, exe, thr, mgr, conv>>

\* time passes
Tick ==
    /\ now + TickSeconds <= MaxNow
    /\ now' = now + TickSeconds
    /\ UNCHANGED <<val, loop, plan, cm, vs, sc, emb, batch, store, orch, post, svm, exe, thr, mgr, conv, last>>

(***************************************************************************)
(* QueryNormalizer, EmbeddingVectorStore, SemanticCache                    *)
(* (src/src/core/semantic_cache.py)                                        *)
(***************************************************************************)
\* A question is a sequence of tokens separated by one blank; the token "SP"
\* is one more blank.  The capitalised words and their lower-case forms:
Capitals == ("How" :> "how") @@ ("Products" :> "products")

lower(tok) == IF tok \in DOMAIN Capitals THEN Capitals[tok] ELSE tok

\* NUMBER_PATTERN matches, with their float() values
NumberValue == ("5" :> 5) @@ ("25" :> 25) @@ ("50" :> 50)

\* replace_number: numbers below 20 stay
replace_number(tok) ==
    IF tok \in DOMAIN NumberValue
    THEN (IF NumberValue[tok] < 20 THEN tok ELSE "<NUM>")
    ELSE tok

\* ' '.join(text.split()): the runs of blanks collapse
RECURSIVE split_join(_)
split_join(text) ==
    IF text = <<>> THEN <<>>
    ELSE IF Head(text) = "SP" THEN split_join(Tail(text))
    ELSE <<Head(text)>> \o split_join(Tail(text))

normalize(question) ==
    LET text == split_join([i \in 1..Len(question) |-> lower(question[i])])
    IN  [i \in 1..Len(text) |-> replace_number(text[i])]

\* re.search of one word, and of two words with one blank between them
HasWord(text, w) == \E i \in 1..Len(text) : text[i] = w

HasPhrase(text, w1, w2) == \E i \in 1..(Len(text) - 1) : text[i] = w1 /\ text[i + 1] = w2

\* by\s+\w+ : "by", any run of blanks, a word
HasByWord(text) ==
    \E i \in 1..(Len(text) - 1) :
        /\ text[i] = "by"
        /\ \E j \in (i + 1)..Len(text) :
              /\ text[j] # "SP"
              /\ \A k \in (i + 1)..(j - 1) : text[k] = "SP"

\* agg_patterns in dict order; the loop goes on after a match, so the last
\* matching type stays
AggMatches(text) ==
    << <<"count", HasWord(text, "count") \/ HasPhrase(text, "how", "many")>>,
       <<"sum",   HasWord(text, "sum") \/ HasWord(text, "total")>>,
       <<"avg",   HasWord(text, "avg") \/ HasWord(text, "average") \/ HasWord(text, "mean")>>,
       <<"max",   HasWord(text, "max") \/ HasWord(text, "highest") \/ HasWord(text, "top")>>,
       <<"min",   HasWord(text, "min") \/ HasWord(text, "lowest")>> >>

extract_query_intent(question) ==
    LET text == [i \in 1..Len(question) |-> lower(question[i])]
        aggs == AggMatches(text)
        hits == {i \in 1..Len(aggs) : aggs[i][2]}
        last_hit == CHOOSE i \in hits : \A j \in hits : j <= i
    IN  [aggregation |-> IF hits = {} THEN "none" ELSE aggs[last_hit][1],
         operation   |-> IF HasWord(text, "compare") \/ HasWord(text, "vs") THEN "compare"
                         ELSE IF HasWord(text, "top") \/ HasWord(text, "rank") THEN "rank"
                         ELSE IF HasWord(text, "group") \/ HasByWord(text) THEN "group"
                         ELSE "select"]

\* the digest of the normalized text; distinct texts are taken to have distinct digests
_compute_hash(text) == <<"md5", text>>

\* the embedder's vector for a text, and the cosine of two vectors: e gives the
\* cosine of the vectors of two different texts, in hundredths
embed_single(text) == <<"vec", text>>

cosine_similarity(e, a, b) == IF a = b THEN 100 ELSE e[{a[2], b[2]}]

\* ---- EmbeddingVectorStore.  _vectors is a dict: keys in insertion order, a
\* key set again keeps its place.  _keys_order is the eviction order.
SaveEvery == 100

\* the key of the saved index
EMBEDDING_INDEX == <<"embedding_index", <<>>>>

VsNew(max_vectors) ==
    [max_vectors |-> max_vectors, vectors |-> <<>>,
     metadata |-> [k \in {} |-> None], keys_order |-> <<>>]

VsKeys(v) == {v.vectors[i].key : i \in 1..Len(v.vectors)}

Without(seq, key) == SelectSeq(seq, LAMBDA x : x # key)

vs_remove(v, key) ==
    [v EXCEPT !.vectors = SelectSeq(@, LAMBDA x : x.key # key),
              !.metadata = [k \in DOMAIN @ \ {key} |-> @[k]],
              !.keys_order = Without(@, key)]

_evict_oldest(v) ==
    IF v.keys_order # <<>> THEN vs_remove(v, Head(v.keys_order)) ELSE v

\* while len(self._vectors) >= self.max_vectors: the store holds max_vectors
\* or fewer, one eviction ends the loop when max_vectors is at least 1
RECURSIVE EvictWhileFull(_)
EvictWhileFull(v) ==
    IF Len(v.vectors) >= v.max_vectors /\ v.keys_order # <<>>
    THEN EvictWhileFull(_evict_oldest(v)) ELSE v

\* _save_to_redis: the whole index under one key of the semantic level
_save_to_redis(c, v, t) ==
    set(c, EMBEDDING_INDEX, [vectors |-> v.vectors, metadata |-> v.metadata],
        "semantic", 86400, None, t).cm

\* the steps of cache_sql that may fail: the embedder, the cache manager's
\* write, VectorStore.add before it wrote anything or at its LRU update, and
\* the index's save
FailSteps == {"none", "embedding", "store", "add", "order", "persist"}

\* a variant that appends the key and leaves its earlier place in the order
appended(keys_order, key) == Append(keys_order, key)

\* if key in self._keys_order: self._keys_order.remove(key); then append(key)
moved_to_last(keys_order, key) == Append(Without(keys_order, key), key)

\* the writes of add into the store v1 that the evictions left
vs_written(v1, key, embedding, query_type, tables, schema_version) ==
    [v1 EXCEPT
       !.vectors = IF key \in VsKeys(v1)
                   THEN [i \in 1..Len(@) |->
                           IF @[i].key = key
                           THEN [key |-> key, embedding |-> embedding] ELSE @[i]]
                   ELSE Append(@, [key |-> key, embedding |-> embedding]),
       !.metadata = [k \in DOMAIN @ \cup {key} |->
                       IF k = key
                       THEN [query_type |-> query_type, tables |-> tables,
                             schema_version |-> schema_version]
                       ELSE @[k]],
       !.keys_order = moved_to_last(@, key)]

\* if len(self._vectors) % 100 == 0: self._save_to_redis()
vs_saved(c, v2, fail, t) ==
    IF Len(v2.vectors) % SaveEvery = 0 /\ fail # "persist" THEN _save_to_redis(c, v2, t)
    ELSE c

\* what add leaves of the store v: v1 after the evictions, v2 after the writes
vs_added(c, v, v1, v2, fail, t) ==
    IF fail = "add" THEN [vs |-> v, cm |-> c, raised |-> TRUE]
    ELSE IF fail = "order"
    THEN [vs |-> [v2 EXCEPT !.keys_order = v1.keys_order], cm |-> c, raised |-> TRUE]
    ELSE [vs |-> v2, cm |-> vs_saved(c, v2, fail, t), raised |-> FALSE]

\* add; fail is the step that fails during the call
vs_add(c, v, key, embedding, query_type, tables, schema_version, fail, t) ==
    vs_added(c, v, EvictWhileFull(v),
             vs_written(EvictWhileFull(v), key, embedding, query_type, tables,
                        schema_version),
             fail, t)

\* results.sort(key=similarity, reverse=True): stable
RECURSIVE SortDesc(_)
SortDesc(r) ==
    IF Len(r) <= 1 THEN r
    ELSE LET m == CHOOSE i \in 1..Len(r) :
                      /\ \A j \in 1..Len(r) : r[j].similarity <= r[i].similarity
                      /\ \A j \in 1..(i - 1) : r[j].similarity < r[i].similarity
         IN  <<r[m]>> \o SortDesc([j \in 1..(Len(r) - 1) |-> IF j < m THEN r[j] ELSE r[j + 1]])

\* the 10% boost of a candidate whose stored query_type is the query's
Boost(similarity) == (similarity * 11) \div 10

search(v, e, query_embedding, top_k, query_type, schema_version, min_similarity) ==
    LET candidates ==
            SelectSeq(v.vectors,
                      LAMBDA x : ~(/\ Truthy(schema_version)
                                   /\ Truthy(v.metadata[x.key].schema_version)
                                   /\ v.metadata[x.key].schema_version # schema_version))
        similarities ==
            [i \in 1..Len(candidates) |->
                LET sim == cosine_similarity(e, query_embedding, candidates[i].embedding)
                IN  [key |-> candidates[i].key,
                     similarity |->
                         IF /\ Truthy(query_type)
                            /\ v.metadata[candidates[i].key].query_type = query_type
                         THEN Boost(sim) ELSE sim]]
        results == SortDesc(SelectSeq(similarities, LAMBDA x : x.similarity >= min_similarity))
    IN  SubSeq(results, 1, Min(top_k, Len(results)))

vs_clear(c, v) ==
    [vs |-> [v EXCEPT !.vectors = <<>>, !.metadata = [k \in {} |-> None],
                      !.keys_order = <<>>],
     cm |-> invalidate(c, EMBEDDING_INDEX, "semantic")]

\* ---- SemanticCache over a CacheManager c, its vector store v and its own
\* fields s.  fail is the step of cache_sql that fails, embed_ok is whether
\* embedder.embed_single returns or raises.
SIMILARITY_THRESHOLD == 85

ScNew(max_entries) ==
    [similarity_threshold |-> SIMILARITY_THRESHOLD, max_entries |-> max_entries,
     enable_intent_matching |-> TRUE, exact_hits |-> 0, semantic_hits |-> 0, misses |-> 0]

\* CachedSQLEntry.to_dict()
to_dict(question, normalized, sql, query_type, tables_used, embedding, schema_version, t) ==
    [question |-> question, normalized_question |-> normalized, sql |-> sql,
     explanation |-> "", query_type |-> query_type, tables_used |-> tables_used,
     embedding |-> embedding, created_at |-> t, hit_count |-> 0,
     schema_version |-> schema_version]

\* a variant that adds the vector whatever the write returned
adds_always(success) == TRUE

\* if success: the vector is added only after the write succeeded
adds(success) == success

\* self.cache_manager.set(f"sql:{cache_key}", entry.to_dict(), CacheLevel.SQL, ...)
cs_stored(c, question, normalized, sql, query_type, tables_used, schema_version, fail, t) ==
    IF fail = "store" THEN [cm |-> c, ok |-> FALSE]
    ELSE set(c, <<"sql:", _compute_hash(normalized)>>,
             to_dict(question, normalized, sql, query_type, tables_used,
                     embed_single(normalized), schema_version, t),
             "sql", 0, schema_version, t)

\* the try block of cache_sql after the write answered r: a is what add leaves
cs_after(c, v, s, r, a, fail) ==
    IF fail = "embedding"
    THEN [cm |-> c, vs |-> v, sc |-> s, ok |-> FALSE, raised |-> TRUE]
    ELSE IF adds(r.ok)
    THEN [cm |-> a.cm, vs |-> a.vs, sc |-> s, ok |-> r.ok, raised |-> a.raised]
    ELSE [cm |-> r.cm, vs |-> v, sc |-> s, ok |-> FALSE, raised |-> FALSE]

\* the try block of cache_sql
cache_sql_try(c, v, s, question, normalized, sql, query_type, tables_used, schema_version, fail, t) ==
    cs_after(c, v, s,
             cs_stored(c, question, normalized, sql, query_type, tables_used,
                       schema_version, fail, t),
             vs_add(cs_stored(c, question, normalized, sql, query_type, tables_used,
                              schema_version, fail, t).cm,
                    v, _compute_hash(normalized), embed_single(normalized), query_type,
                    tables_used, schema_version, fail, t),
             fail)

\* except Exception: return False
cs_except(r) == IF r.raised THEN [r EXCEPT !.ok = FALSE, !.raised = FALSE] ELSE r

cache_sql(c, v, s, question, sql, query_type, tables_used, schema_version, fail, t) ==
    cs_except(cache_sql_try(c, v, s, question, normalize(question), sql, query_type,
                            tables_used, schema_version, fail, t))

\* a variant that never looks at the versions
VersionMismatchIgnored(schema_version, entry) == FALSE

VersionMismatch(schema_version, entry) ==
    /\ Truthy(schema_version) /\ Truthy(entry.schema_version)
    /\ entry.schema_version # schema_version

\* the loop over similar_entries from position i on
RECURSIVE FirstSurvivor(_, _, _, _, _)
FirstSurvivor(c, matches, i, schema_version, t) ==
    IF i > Len(matches) THEN [cm |-> c, hit |-> FALSE, entry |-> None, similarity |-> 0]
    ELSE LET g == get(c, <<"sql:", matches[i].key>>, "sql", TRUE, t)
         IN  IF ~g.hit \/ VersionMismatch(schema_version, g.value)
             THEN FirstSurvivor(g.cm, matches, i + 1, schema_version, t)
             ELSE [cm |-> g.cm, hit |-> TRUE, entry |-> g.value,
                   similarity |-> matches[i].similarity]

get_sql(c, v, s, e, question, schema_version, allow_semantic, embed_ok, t) ==
    LET normalized == normalize(question)
        cache_key  == _compute_hash(normalized)
        g          == get(c, <<"sql:", cache_key>>, "sql", TRUE, t)
        miss(c1, searched) ==
            [cm |-> c1, sc |-> [s EXCEPT !.misses = @ + 1], hit |-> FALSE,
             entry |-> None, similarity |-> 0, searched |-> searched]
        intent     == extract_query_intent(question)
        query_intent ==
            IF ~s.enable_intent_matching THEN None
            ELSE IF intent.aggregation = "none" THEN intent.operation
            ELSE intent.aggregation
        similar_entries ==
            search(v, e, embed_single(normalized), 5, query_intent, schema_version,
                   s.similarity_threshold)
        f == FirstSurvivor(g.cm, similar_entries, 1, schema_version, t)
    IN  IF g.hit
        THEN (IF VersionMismatch(schema_version, g.value) THEN miss(g.cm, FALSE)
              ELSE [cm |-> g.cm, sc |-> [s EXCEPT !.exact_hits = @ + 1], hit |-> TRUE,
                    entry |-> g.value, similarity |-> 100, searched |-> FALSE])
        ELSE IF ~allow_semantic \/ ~embed_ok THEN miss(g.cm, FALSE)
        ELSE IF f.hit
        THEN [cm |-> f.cm, sc |-> [s EXCEPT !.semantic_hits = @ + 1], hit |-> TRUE,
              entry |-> f.entry, similarity |-> f.similarity, searched |-> TRUE]
        ELSE miss(f.cm, TRUE)

invalidate_all(c, v, s) ==
    LET a == vs_clear(invalidate_level(c, "sql"), v)
    IN  [cm |-> a.cm, vs |-> a.vs,
         sc |-> [s EXCEPT !.exact_hits = 0, !.semantic_hits = 0, !.misses = 0]]

\* ---- the calls made on a SemanticCache, and what each was given and answered
SemMaxEntries == 1

SemTickSeconds == 600

SemMaxNow == 1200

SemMaxOps == 2

SimLevels == {70, 80, 90}

SemQuestions ==
    { <<"How", "SP", "many", "products", "over", "25">>,
      <<"how", "many", "products", "over", "50">>,
      <<"count", "Products", "over", "5">> }

SemNormalized == {normalize(q) : q \in SemQuestions}

SemSqls == {"SELECT COUNT(*) FROM products", "SELECT COUNT(*) FROM products WHERE price > 25"}

\* query_type as callers give it: a QueryType value, or an aggregation name
SemQueryTypes == {"aggregation", "count"}

SemVersions == {None} \cup Versions

EmbOpts == [{{a, b} : a, b \in SemNormalized} \ {{a} : a \in SemNormalized} -> SimLevels]

\* the latest successful cache_sql of a normalized question that no
\* invalidation has followed
NoStore == [live |-> FALSE, sql |-> None, schema_version |-> None, expires_at |-> 0]

SemLog(op, question, sql, query_type, schema_version, allow_semantic, r) ==
    [op |-> op, question |-> question, sql |-> sql, query_type |-> query_type,
     schema_version |-> schema_version, allow_semantic |-> allow_semantic,
     at |-> now, result |-> r]

NoSemOp == SemLog("none", <<>>, None, None, None, FALSE, [ok |-> FALSE])

SemLastIdle == [ops |-> 0, cur |-> [NoSemOp EXCEPT !.at = 0],
                stored |-> [n \in SemNormalized |-> NoStore]]

\* SemanticCache.__init__: the vector store looks for a saved index
SemInit ==
    /\ cm \in {get(CmNew(enabled), EMBEDDING_INDEX, "semantic", TRUE, 0).cm :
                  enabled \in BOOLEAN}
    /\ vs = VsNew(SemMaxEntries)
    /\ sc = ScNew(SemMaxEntries)
    /\ emb \in EmbOpts
    /\ now = 0
    /\ last = SemLastIdle

SemCacheSql ==
    /\ last.ops < SemMaxOps
    /\ \E question \in SemQuestions, sql \in SemSqls, query_type \in SemQueryTypes,
          schema_version \in SemVersions, embed_ok \in BOOLEAN :
          LET r == cache_sql(cm, vs, sc, question, sql, query_type, <<"products">>,
                             schema_version, IF embed_ok THEN "none" ELSE "embedding", now)
          IN  /\ cm' = r.cm /\ vs' = r.vs /\ sc' = r.sc
              /\ last' = [ops |-> last.ops + 1,
                          cur |-> SemLog("cache_sql", <<>>, None, None, None, FALSE,
                                         [ok |-> r.ok]),
                          stored |-> IF r.ok
                                     THEN [last.stored EXCEPT ![normalize(question)] =
                                            [live |-> TRUE, sql |-> sql,
                                             schema_version |-> schema_version,
                                             expires_at |-> now + get_ttl("sql")]]
                                     ELSE last.stored]
    /\ UNCHANGED <<val, loop, plan, now, emb, batch, store, orch, post, svm, exe, thr, mgr, conv>>

SemGetSql ==
    /\ last.ops < SemMaxOps
    /\ \E question \in SemQuestions, schema_version \in SemVersions,
          allow_semantic \in BOOLEAN, embed_ok \in BOOLEAN :
          LET r == get_sql(cm, vs, sc, emb, question, schema_version, allow_semantic,
                           embed_ok, now)
          IN  /\ cm' = r.cm /\ sc' = r.sc
              /\ last' = [last EXCEPT
                            !.ops = @ + 1,
                            !.cur = SemLog("get_sql", question, None, None, schema_version,
                                           allow_semantic,
                                           [hit |-> r.hit, entry |-> r.entry,
                                            similarity |-> r.similarity,
                                            searched |-> r.searched])]
    /\ UNCHANGED <<val, loop, plan, now, vs, emb, batch, store, orch, post, svm, exe, thr, mgr, conv>>

SemInvalidateAll ==
    /\ last.ops < SemMaxOps
    /\ LET r == invalidate_all(cm, vs, sc)
       IN  /\ cm' = r.cm /\ vs' = r.vs /\ sc' = r.sc
           /\ last' = [ops |-> last.ops + 1,
                       cur |-> SemLog("invalidate_all", <<>>, None, None, None, FALSE,
                                      [ok |-> TRUE]),
                       stored |-> [n \in SemNormalized |-> NoStore]]
    /\ UNCHANGED <<val, loop, plan, now, emb, batch, store, orch, post, svm, exe, thr, mgr, conv>>

SemTick ==
    /\ now + SemTickSeconds <= SemMaxNow
    /\ now' = now + SemTickSeconds
    /\ UNCHANGED <<val, loop, plan, cm, vs, sc, emb, batch, store, orch, post, svm, exe, thr, mgr, conv, last>>

(***************************************************************************)
(* SemanticCache.cache_sql when one of its steps fails                     *)
(***************************************************************************)
CsMaxOps == 2

\* SemanticCache(max_entries=...): one vector, or the default
DEFAULT_MAX_ENTRIES == 1000

CsMaxEntries == {1, DEFAULT_MAX_ENTRIES}

\* the cache after cache_sql stored n other questions at time 0, one after
\* the other
OtherQuestion(i) == <<"other", "q" \o ToString(i)>>

OtherKey(i) == _compute_hash(normalize(OtherQuestion(i)))

OtherEntry(i) ==
    LET r == set(CmNew(TRUE), <<"sql:", OtherKey(i)>>,
                 to_dict(OtherQuestion(i), normalize(OtherQuestion(i)),
                         "SELECT COUNT(*) FROM products", "count", <<"products">>,
                         embed_single(normalize(OtherQuestion(i))), None, 0),
                 "sql", 0, None, 0)
    IN  r.cm.local[_make_key(<<"sql:", OtherKey(i)>>, "sql")]

Preloaded(max_entries, n) ==
    LET first == IF n <= max_entries THEN 1 ELSE n - max_entries + 1
        kept == first..n
        index(k) == CHOOSE i \in 1..n : OtherKey(i) = k
        full(i) == _make_key(<<"sql:", OtherKey(i)>>, "sql")
        entry(fk) == CHOOSE i \in 1..n : full(i) = fk
    IN  [cm |-> [CmNew(TRUE) EXCEPT
                    !.local = [fk \in {full(i) : i \in 1..n} |-> OtherEntry(entry(fk))],
                    !.metrics.total_entries = n],
         vs |-> [VsNew(max_entries) EXCEPT
                    !.vectors = [j \in 1..(n - first + 1) |->
                                   [key |-> OtherKey(first + j - 1),
                                    embedding |->
                                       embed_single(normalize(OtherQuestion(first + j - 1)))]],
                    !.metadata = [k \in {OtherKey(i) : i \in kept} |->
                                    [query_type |-> "count", tables |-> <<"products">>,
                                     schema_version |-> None]],
                    !.keys_order = [j \in 1..(n - first + 1) |-> OtherKey(first + j - 1)]],
         sc |-> ScNew(max_entries)]

CsKey(question) == _compute_hash(normalize(question))

HasEntry(c, question) == _make_key(<<"sql:", CsKey(question)>>, "sql") \in DOMAIN c.local

HasVector(v, question) == CsKey(question) \in VsKeys(v)

NoCsCall ==
    [question |-> <<>>, fail |-> "none", ok |-> FALSE, raised |-> FALSE, saved |-> FALSE]

CsIdle == [ops |-> 0, prev |-> NoCsCall, cur |-> NoCsCall]

CsInit ==
    /\ \E max_entries \in CsMaxEntries, n \in {0, SaveEvery - 1} :
          LET p == Preloaded(max_entries, n)
          IN  cm = p.cm /\ vs = p.vs /\ sc = p.sc
    /\ now = 0
    /\ last = CsIdle

CsCacheSql ==
    /\ last.ops < CsMaxOps
    /\ \E question \in SemQuestions, sql \in SemSqls, fail \in FailSteps :
          LET r == cache_sql(cm, vs, sc, question, sql, "count", <<"products">>, None, fail,
                             now)
          IN  /\ cm' = r.cm /\ vs' = r.vs /\ sc' = r.sc
              /\ last' = [ops |-> last.ops + 1, prev |-> last.cur,
                          cur |-> [question |-> question, fail |-> fail, ok |-> r.ok,
                                   raised |-> r.raised,
                                   saved |-> _make_key(EMBEDDING_INDEX, "semantic")
                                                \in DOMAIN r.cm.local]]
    /\ UNCHANGED <<val, loop, plan, now, emb, batch, store, orch, post, svm, exe, thr, mgr,
                   conv>>

(***************************************************************************)
(* EmbeddingVectorStore under add, remove and clear, built on a cache      *)
(* manager that holds a saved index or none                                *)
(***************************************************************************)
IxMaxOps == 3

DEFAULT_MAX_VECTORS == 5000

IxMaxVectors == {0, 1, 2, DEFAULT_MAX_VECTORS}

\* _load_from_redis into the new store v: the entries of the saved index that
\* carry an embedding, in the order of the saved dictionary
_load_from_redis(c, v, t) ==
    LET g == get(c, EMBEDDING_INDEX, "semantic", TRUE, t)
        kept == IF g.hit THEN SelectSeq(g.value.vectors, LAMBDA x : x.embedding # <<>>)
                ELSE <<>>
    IN  [cm |-> g.cm,
         vs |-> [v EXCEPT
                   !.vectors = kept,
                   !.metadata = [k \in {kept[i].key : i \in 1..Len(kept)} |->
                                   IF k \in DOMAIN g.value.metadata THEN g.value.metadata[k]
                                   ELSE [query_type |-> "unknown", tables |-> <<>>,
                                         schema_version |-> None]],
                   !.keys_order = [i \in 1..Len(kept) |-> kept[i].key]]]

\* EmbeddingVectorStore(cache_manager, dimension, max_vectors)
VsLoaded(c, max_vectors, t) == _load_from_redis(c, VsNew(max_vectors), t)

\* a cache manager whose store had saved its index at SaveEvery vectors
SavedIndex ==
    _save_to_redis(Preloaded(DEFAULT_MAX_ENTRIES, SaveEvery).cm,
                   Preloaded(DEFAULT_MAX_ENTRIES, SaveEvery).vs, 0)

\* keys of the calls: the oldest and the newest of the saved index, two others
IxKeys == {OtherKey(1), OtherKey(SaveEvery), OtherKey(SaveEvery + 1), OtherKey(SaveEvery + 2)}

\* the last call: before is the store as the call found it, evicted the keys
\* add's loop removed, hung whether add's loop can never end
IxCall(op, key, before, evicted, hung) ==
    [op |-> op, key |-> key, before |-> before, evicted |-> evicted, hung |-> hung]

IxLogged(call) == [ops |-> last.ops + 1, prev |-> last.cur, cur |-> call]

IxInit ==
    /\ \E max_vectors \in IxMaxVectors, c \in {CmNew(TRUE), SavedIndex} :
          LET l == VsLoaded(c, max_vectors, 0)
          IN  /\ cm = l.cm /\ vs = l.vs
              /\ last = [ops |-> 0, prev |-> IxCall("none", None, l.vs, <<>>, FALSE),
                         cur |-> IxCall("none", None, l.vs, <<>>, FALSE)]
    /\ now = 0

\* add(key, embedding, ...): `while len(self._vectors) >= self.max_vectors:
\* self._evict_oldest()` never ends when nothing is left to evict
IxAdd ==
    /\ last.ops < IxMaxOps /\ ~last.cur.hung
    /\ \E key \in IxKeys :
          LET v1 == EvictWhileFull(vs)
              a  == vs_add(cm, vs, key, embed_single(key[2]), "count", <<"products">>, None,
                           "none", now)
              evicted == SubSeq(vs.keys_order, 1, Len(vs.keys_order) - Len(v1.keys_order))
          IN  IF Len(v1.vectors) >= vs.max_vectors
              THEN /\ vs' = v1 /\ cm' = cm
                   /\ last' = IxLogged(IxCall("add", key, vs, evicted, TRUE))
              ELSE /\ vs' = a.vs /\ cm' = a.cm
                   /\ last' = IxLogged(IxCall("add", key, vs, evicted, FALSE))
    /\ UNCHANGED <<val, loop, plan, now, sc, emb, batch, store, orch, post, svm, exe, thr, mgr,
                   conv>>

IxRemove ==
    /\ last.ops < IxMaxOps /\ ~last.cur.hung
    /\ \E key \in IxKeys :
          /\ vs' = vs_remove(vs, key)
          /\ last' = IxLogged(IxCall("remove", key, vs, <<>>, FALSE))
    /\ UNCHANGED <<val, loop, plan, cm, now, sc, emb, batch, store, orch, post, svm, exe, thr,
                   mgr, conv>>

IxClear ==
    /\ last.ops < IxMaxOps /\ ~last.cur.hung
    /\ vs' = vs_clear(cm, vs).vs /\ cm' = vs_clear(cm, vs).cm
    /\ last' = IxLogged(IxCall("clear", None, vs, <<>>, FALSE))
    /\ UNCHANGED <<val, loop, plan, now, sc, emb, batch, store, orch, post, svm, exe, thr, mgr,
                   conv>>

(***************************************************************************)
(* NL2SQLConverter.generate_sql  (src/src/core/converter.py) and           *)
(* AsyncNL2SQLConverter.generate_sql  (src/src/core/async_converter.py)    *)
(***************************************************************************)
\* ---- SQLPostProcessor and format_sql, on SQL as a sequence of words
DEFAULT_LIMIT == "100"

SqlKeywords == {"SELECT", "FROM", "WHERE", "AND", "OR", "JOIN", "ON", "HAVING", "LIMIT"}

\* the two-word keywords, matched with one blank between the words
KeywordPairs ==
    { <<"GROUP", "BY">>, <<"ORDER", "BY">>, <<"LEFT", "JOIN">>, <<"RIGHT", "JOIN">>,
      <<"INNER", "JOIN">> }

\* whitespace between two words beyond the one blank: a further blank, a line break
Whitespace == {"SP", "NL"}

\* str.upper() of a word of the model
UpperWord(w) ==
    CASE w = "select" -> "SELECT"
      [] w = "from"   -> "FROM"
      [] w = "where"  -> "WHERE"
      [] w = "limit"  -> "LIMIT"
      [] w = "group"  -> "GROUP"
      [] w = "order"  -> "ORDER"
      [] w = "by"     -> "BY"
      [] w = "with"   -> "WITH"
      [] w = "drop"   -> "DROP"
      [] w = "delete" -> "DELETE"
      [] OTHER        -> w

\* the words in whose upper-case text 'LIMIT' occurs
LimitWords == {"LIMIT", "limit", "credit_limit"}

\* the words in whose upper-case text 'COUNT(', 'SUM(', 'AVG(', 'MAX(' or 'MIN(' occurs
AggregateWords == {"COUNT(*)", "COUNT(", "SUM(", "AVG(", "MAX(", "MIN(", "discount(price)"}

\* str.strip()
RECURSIVE strip(_)
strip(s) ==
    IF s = <<>> THEN s
    ELSE IF s[1] \in Whitespace THEN strip(Tail(s))
    ELSE IF s[Len(s)] \in Whitespace THEN strip(SubSeq(s, 1, Len(s) - 1))
    ELSE s

\* str.rstrip(';')
RECURSIVE RStripSemicolon(_)
RStripSemicolon(s) ==
    IF s # <<>> /\ s[Len(s)] = ";" THEN RStripSemicolon(SubSeq(s, 1, Len(s) - 1)) ELSE s

\* 'LIMIT' in sql_upper
HasLimitText(s) == Range(s) \cap LimitWords # {}

_ensure_limit(s) ==
    IF HasLimitText(s) THEN s
    ELSE IF Range(s) \cap AggregateWords # {} THEN s
    ELSE IF \E i \in 1..(Len(s) - 1) : UpperWord(s[i]) = "GROUP" /\ UpperWord(s[i + 1]) = "BY"
    THEN s
    ELSE IF strip(s) = <<>> \/ UpperWord(strip(s)[1]) # "SELECT" THEN s
    ELSE strip(RStripSemicolon(s)) \o <<"LIMIT", DEFAULT_LIMIT>>

\* the nearest position before i, and after i, that holds no line break; 0 if none
RECURSIVE PrevWord(_, _)
PrevWord(s, i) ==
    IF i <= 1 THEN 0 ELSE IF s[i - 1] = "NL" THEN PrevWord(s, i - 1) ELSE i - 1

RECURSIVE NextWord(_, _)
NextWord(s, i) ==
    IF i >= Len(s) THEN 0 ELSE IF s[i + 1] = "NL" THEN NextWord(s, i + 1) ELSE i + 1

\* s[i] is matched by \bKW\b of one of the keywords, whatever its case
IsKeywordAt(s, i) ==
    \/ UpperWord(s[i]) \in SqlKeywords
    \/ /\ i < Len(s)
       /\ <<UpperWord(s[i]), UpperWord(s[i + 1])>> \in KeywordPairs
    \/ /\ i > 1
       /\ <<UpperWord(s[i - 1]), UpperWord(s[i])>> \in KeywordPairs
    \/ /\ NextWord(s, i) # 0
       /\ <<UpperWord(s[i]), UpperWord(s[NextWord(s, i)])>> \in KeywordPairs
       /\ UpperWord(s[NextWord(s, i)]) = "JOIN"

\* \s*\bKW\b\s* becomes ' KW ': the whitespace next to a keyword goes and the
\* keyword is written in upper case; the last strip() takes the line breaks
\* at both ends
RECURSIVE CleanFrom(_, _)
CleanFrom(s, i) ==
    IF i > Len(s) THEN <<>>
    ELSE IF /\ s[i] = "NL"
            /\ \/ PrevWord(s, i) = 0 \/ NextWord(s, i) = 0
               \/ IsKeywordAt(s, PrevWord(s, i)) \/ IsKeywordAt(s, NextWord(s, i))
    THEN CleanFrom(s, i + 1)
    ELSE IF s[i] # "NL" /\ IsKeywordAt(s, i) THEN <<UpperWord(s[i])>> \o CleanFrom(s, i + 1)
    ELSE <<s[i]>> \o CleanFrom(s, i + 1)

\* re.sub(r' +', ' ', sql), then the keywords
_clean_whitespace(s) == CleanFrom(SelectSeq(s, LAMBDA w : w # "SP"), 1)

process(s) == _clean_whitespace(_ensure_limit(strip(s)))

\* sqlparse.format(reindent=True): each clause after the first starts a line
RECURSIVE format_sql(_)
format_sql(s) ==
    IF Len(s) <= 1 THEN s
    ELSE LET front == format_sql(SubSeq(s, 1, Len(s) - 1))
             w     == s[Len(s)]
         IN  IF w \in {"FROM", "WHERE", "LIMIT", "HAVING"} /\ s[Len(s) - 1] # "NL"
             THEN front \o <<"NL", w>> ELSE front \o <<w>>

\* ---- what the LLM may answer: a query with a confidence, or an error
OrchSqls == { <<"SELECT", "*", "FROM", "users">>, <<"SELECT", "*", "FROM", "ghost">> }

CONFIDENCE_TO_CACHE == 70

LlmOutcomes ==
    [kind : {"ok"}, query : OrchSqls, confidence : {90, 60}]
        \cup {[kind |-> "error", query |-> <<>>, confidence |-> 0]}

\* the SQLQuery answered, and the marks it carries in potential_issues
SQLQuery(query, confidence, potential_issues) ==
    [query |-> query, confidence |-> confidence, potential_issues |-> potential_issues]

\* a variant with the factor of the table-name check used without a validator
Halved(confidence) == (confidence * 5) \div 10

\* response.confidence *= 0.3
Lowered(confidence) == (confidence * 3) \div 10

OrchValid(query) == validate(query, LoopSchema.table_names, LoopSchema.column_map).is_valid

PostProcessed(r) == [r EXCEPT !.query = format_sql(process(@))]

\* the answer built from a cache hit; mark is the mode's wording
CachedAnswer(entry, mark) ==
    SQLQuery(entry.sql, Min(95, entry.hit_count * 10 + 80), <<mark>>)

\* _self_correct_query / _async_self_correct after the LLM answered: the
\* corrected SQLQuery, or none
Corrected(outcome, mark) ==
    IF outcome.kind = "ok" /\ OrchValid(outcome.query)
    THEN [some |-> TRUE,
          response |-> PostProcessed(SQLQuery(outcome.query, outcome.confidence, <<mark>>))]
    ELSE [some |-> FALSE, response |-> SQLQuery(<<>>, 0, <<>>)]

\* SQLValidator's verdict written into the response: the errors and the first
\* three warnings go to potential_issues, an invalid query loses confidence
Validated(outcome) ==
    LET v == validate(outcome.query, LoopSchema.table_names, LoopSchema.column_map)
    IN  [is_valid |-> v.is_valid,
         response |-> SQLQuery(outcome.query,
                               IF v.is_valid THEN outcome.confidence
                               ELSE Lowered(outcome.confidence),
                               v.errors \o SubSeq(v.warnings, 1, Min(3, Len(v.warnings))))]

\* ---- the converter and its caller.  The converter is initialized, caching
\* is enabled, the calls have no conversation_history and leave use_cache and
\* enable_self_correction at True.
OrchMaxCalls == 2

OrchQuestions ==
    { <<"how", "many", "products", "over", "50">>, <<"count", "Products", "over", "5">> }

\* processed.query_type.value
OrchQueryTypes == {"aggregation", "unknown"}

\* no LLM call was made
NoOutcome == [kind |-> "none", query |-> <<>>, confidence |-> 0]

\* a finished call: what was asked, where the answer came from, how many LLM
\* calls it made, what they answered, and whether it began right after the
\* call before it returned
NoCall ==
    [question |-> <<>>, source |-> "none", response |-> SQLQuery(<<>>, 0, <<>>),
     similarity |-> 0, llm_calls |-> 0, right_after |-> FALSE,
     first |-> NoOutcome, second |-> NoOutcome]

OrchNew(mode, schema_version) ==
    [mode |-> mode, schema_version |-> schema_version, pc |-> "idle",
     question |-> <<>>, query_type |-> None, response |-> SQLQuery(<<>>, 0, <<>>),
     right_after |-> FALSE, tasks |-> <<>>, calls |-> 0, fresh |-> FALSE,
     first |-> NoOutcome,
     prev |-> NoCall, cur |-> NoCall]

\* ---- the process's QueryPlanCache (get_query_plan_cache): it holds the plan
\* that put(question, sql, tables_used) stored for a question of the model
OrchPlanTables == <<"products">>

OrchPlanCache ==
    LET q     == <<"how", "many", "products", "over", "50">>
        sql   == <<"SELECT", "COUNT(*)", "FROM", "products", "WHERE", "price", ">", "50">>
        match == detect_pattern(q)
        t     == _normalize_sql_to_template(sql, match.extracted_params)
    IN  [PlanIdle EXCEPT !.cache =
            << [key  |-> _generate_cache_key(match.pattern, OrchPlanTables,
                                             match.extracted_params),
                plan |-> [pattern |-> match.pattern, sql_template |-> t.template,
                          parameters |-> match.extracted_params,
                          tables_used |-> OrchPlanTables, confidence |-> 9,
                          created_at |-> 0, hit_count |-> 0, last_used |-> 0,
                          placeholders |-> t.placeholders]] >>]

\* QueryPlanCache.get and fill_template, as a lookup that leaves the cache alone
PlanLookup(pl, q, tables_hint) ==
    LET match == detect_pattern(q)
        key   == _generate_cache_key(match.pattern, tables_hint, match.extracted_params)
        i     == KeyIndex(pl.cache, key)
    IN  IF \/ match.pattern = "unknown" \/ match.confidence < MIN_CONFIDENCE
           \/ i = 0
        THEN [hit |-> FALSE, filled |-> <<>>]
        ELSE IF pl.clock - pl.cache[i].plan.created_at > TTL_HOURS
        THEN [hit |-> FALSE, filled |-> <<>>]
        ELSE [hit |-> TRUE,
              filled |-> fill_template(pl.cache[i].plan,
                                       _extract_runtime_params(q, match, pl.cache[i].plan))]

\* what the plan cache would answer to each question of the model
OrchPlanAnswer == [q \in OrchQuestions |-> PlanLookup(OrchPlanCache, q, OrchPlanTables)]

OrchInit ==
    /\ cm = get(CmNew(TRUE), EMBEDDING_INDEX, "semantic", TRUE, 0).cm
    /\ vs = VsNew(SemMaxEntries)
    /\ sc = ScNew(SemMaxEntries)
    /\ emb \in EmbOpts
    /\ now = 0
    /\ orch \in {OrchNew(mode, "v1") : mode \in {"sync", "async"}}

\* return (or raise) to the caller
Returned(o, question, source, response, similarity, llm_calls, right_after) ==
    [o EXCEPT !.pc = "returned", !.fresh = TRUE, !.prev = o.cur,
              !.cur = [question |-> question, source |-> source, response |-> response,
                       similarity |-> similarity, llm_calls |-> llm_calls,
                       right_after |-> right_after,
                       first |-> NoOutcome, second |-> NoOutcome]]

\* the call that returned, with what its LLM calls had answered
Answered(o, first, second) == [o EXCEPT !.cur.first = first, !.cur.second = second]

\* the cache write of generate_sql, and of _cache_result
CacheAnswer(c, v, s, question, response, query_type, schema_version, t) ==
    cache_sql(c, v, s, question, response.query, query_type, <<"users">>, schema_version,
              "none", t)

\* NL2SQLConverter.generate_sql: one synchronous call
SyncGenerateSql ==
    /\ orch.mode = "sync" /\ orch.pc \in {"idle", "returned"}
    /\ orch.calls < OrchMaxCalls
    /\ \E question \in OrchQuestions, o \in {[orch EXCEPT !.calls = @ + 1]} :
       \E g \in {get_sql(cm, vs, sc, emb, question, orch.schema_version, TRUE, TRUE, now)} :
          IF g.hit
          THEN /\ orch' = Returned(o, question, "cache",
                                   CachedAnswer(g.entry, "Result from cache"),
                                   g.similarity, 0, orch.fresh)
               /\ cm' = g.cm /\ sc' = g.sc /\ vs' = vs
          ELSE \E query_type \in OrchQueryTypes, first \in LlmOutcomes :
             IF first.kind = "error"
             THEN /\ orch' = Answered(Returned(o, question, "raised",
                                               SQLQuery(<<>>, 0, <<>>), 0, 1, orch.fresh),
                                      first, NoOutcome)
                  /\ cm' = g.cm /\ sc' = g.sc /\ vs' = vs
             ELSE \E checked \in {Validated(first)} :
                  \E response \in {PostProcessed(checked.response)} :
                  \E second \in IF checked.is_valid THEN {NoOutcome} ELSE LlmOutcomes :
                  \E corrected \in {Corrected(second, "Query was auto-corrected")} :
                     IF ~checked.is_valid /\ corrected.some
                     THEN /\ orch' = Answered(Returned(o, question, "llm",
                                                       corrected.response, 0, 2,
                                                       orch.fresh),
                                              first, second)
                          /\ cm' = g.cm /\ sc' = g.sc /\ vs' = vs
                     ELSE /\ orch' = Answered(Returned(o, question, "llm", response, 0,
                                                       IF checked.is_valid THEN 1 ELSE 2,
                                                       orch.fresh),
                                              first, second)
                          /\ IF response.confidence >= CONFIDENCE_TO_CACHE
                             THEN \E w \in {CacheAnswer(g.cm, vs, g.sc, question, response,
                                                        query_type, orch.schema_version,
                                                        now)} :
                                     cm' = w.cm /\ sc' = w.sc /\ vs' = w.vs
                             ELSE cm' = g.cm /\ sc' = g.sc /\ vs' = vs
    /\ UNCHANGED <<val, loop, plan, now, emb, batch, store, post, svm, exe, thr, mgr, conv, last>>

\* AsyncNL2SQLConverter.generate_sql up to its first await: the cache lookup
\* runs before the call suspends
AsyncGenerateSql ==
    /\ orch.mode = "async" /\ orch.pc \in {"idle", "returned"}
    /\ orch.calls < OrchMaxCalls
    /\ \E question \in OrchQuestions, query_type \in OrchQueryTypes :
          \E o \in {[orch EXCEPT !.calls = @ + 1]},
             g \in {get_sql(cm, vs, sc, emb, question, orch.schema_version, TRUE, TRUE, now)} :
              /\ cm' = g.cm /\ sc' = g.sc
              /\ orch' = IF g.hit
                         THEN Returned(o, question, "cache",
                                       CachedAnswer(g.entry, "From cache"), g.similarity, 0,
                                       orch.fresh)
                         ELSE [o EXCEPT !.pc = "llm", !.question = question,
                                        !.query_type = query_type,
                                        !.right_after = orch.fresh, !.fresh = FALSE]
    /\ UNCHANGED <<val, loop, plan, now, vs, emb, batch, store, post, svm, exe, thr, mgr, conv, last>>

\* a variant that schedules the cache write whatever the confidence
AsyncReturnedAndCached(o, response, llm_calls) ==
    Returned([o EXCEPT !.tasks =
                 Append(@, [question |-> o.question, response |-> response,
                            query_type |-> o.query_type,
                            schema_version |-> o.schema_version])],
             o.question, "llm", response, 0, llm_calls, o.right_after)

\* the end of generate_sql: the cache write becomes a task of the event loop
AsyncReturned(o, response, llm_calls) ==
    Returned([o EXCEPT !.tasks =
                 IF response.confidence >= CONFIDENCE_TO_CACHE
                 THEN Append(@, [question |-> o.question, response |-> response,
                                 query_type |-> o.query_type,
                                 schema_version |-> o.schema_version])
                 ELSE @],
             o.question, "llm", response, 0, llm_calls, o.right_after)

\* generate_sql after the LLM answered first: it raises, suspends in
\* _async_self_correct, or returns
LlmChecked(o, first, checked) ==
    IF ~checked.is_valid
    THEN [o EXCEPT !.pc = "correct", !.response = checked.response, !.first = first]
    ELSE Answered(AsyncReturned(o, PostProcessed(checked.response), 1), first, NoOutcome)

LlmAnswered(o, first) ==
    IF first.kind = "error"
    THEN Answered(Returned(o, o.question, "raised", SQLQuery(<<>>, 0, <<>>), 0, 1,
                           o.right_after),
                  first, NoOutcome)
    ELSE LlmChecked(o, first, Validated(first))

\* generate_sql after the correcting LLM call answered second
CorrectionAnswered(o, second) ==
    LET corrected == Corrected(second, "Auto-corrected from previous error")
        o1 == [o EXCEPT !.first = NoOutcome]
    IN  IF corrected.some
        THEN Answered(AsyncReturned(o1, corrected.response, 2), o.first, second)
        ELSE Answered(AsyncReturned(o1, PostProcessed(o.response), 2), o.first, second)

\* the LLM's answer arrives: _validate_and_process up to its await, or to the end
AsyncLlmAnswer ==
    /\ orch.mode = "async" /\ orch.pc = "llm"
    /\ \E first \in LlmOutcomes :
          orch' = LlmAnswered(orch, first)
    /\ UNCHANGED <<val, loop, plan, cm, now, vs, sc, emb, batch, store, post, svm, exe, thr, mgr, conv, last>>

\* the correcting LLM call's answer arrives: _async_self_correct, then the rest
AsyncCorrectionAnswer ==
    /\ orch.mode = "async" /\ orch.pc = "correct"
    /\ \E second \in LlmOutcomes :
          orch' = CorrectionAnswered(orch, second)
    /\ UNCHANGED <<val, loop, plan, cm, now, vs, sc, emb, batch, store, post, svm, exe, thr, mgr, conv, last>>

\* the event loop runs the oldest _cache_result task; it gets to run only
\* while the caller is suspended
AsyncCacheResult ==
    /\ orch.mode = "async" /\ orch.pc \in {"idle", "llm", "correct"}
    /\ orch.tasks # <<>>
    /\ \E task \in {Head(orch.tasks)} :
       \E w \in {CacheAnswer(cm, vs, sc, task.question, task.response, task.query_type,
                              task.schema_version, now)} :
           /\ cm' = w.cm /\ vs' = w.vs /\ sc' = w.sc
           /\ orch' = [orch EXCEPT !.tasks = Tail(@), !.fresh = FALSE]
    /\ UNCHANGED <<val, loop, plan, now, emb, batch, store, post, svm, exe, thr, mgr, conv, last>>

\* the caller awaits something else before its next call
CallerSuspends ==
    /\ orch.mode = "async" /\ orch.pc = "returned"
    /\ orch' = [orch EXCEPT !.pc = "idle", !.fresh = FALSE]
    /\ UNCHANGED <<val, loop, plan, cm, now, vs, sc, emb, batch, store, post, svm, exe, thr, mgr, conv, last>>

\* time passes between two calls
OrchTick ==
    /\ orch.pc \in {"idle", "returned"}
    /\ now + SemTickSeconds <= SemMaxNow
    /\ now' = now + SemTickSeconds
    /\ orch' = [orch EXCEPT !.fresh = FALSE]
    /\ UNCHANGED <<val, loop, plan, cm, vs, sc, emb, batch, store, post, svm, exe, thr, mgr, conv, last>>

\* ---- a converter whose semantic cache already holds the answer of an
\* earlier call: generate_sql answered the question through the LLM with
\* confidence 0.9 and cached it
\* every two different questions are as similar as 0.9
ServeEmbOpts == {e \in EmbOpts : \A p \in DOMAIN e : e[p] = 90}

ServeInit ==
    /\ \E question \in OrchQuestions, query_type \in OrchQueryTypes :
          LET c == get(CmNew(TRUE), EMBEDDING_INDEX, "semantic", TRUE, 0).cm
              response == PostProcessed(SQLQuery(<<"SELECT", "*", "FROM", "users">>, 90, <<>>))
              w == CacheAnswer(c, VsNew(SemMaxEntries), ScNew(SemMaxEntries), question,
                               response, query_type, "v1", 0)
          IN  cm = w.cm /\ vs = w.vs /\ sc = w.sc
    /\ emb \in ServeEmbOpts
    /\ now = 0
    /\ orch \in {OrchNew(mode, "v1") : mode \in {"sync", "async"}}

\* ---- calls with and without conversation_history, and close().  The log
\* keeps what the cache cannot tell: whether the call in flight had a
\* conversation_history, the same for each pending _cache_result task, the keys
\* last written for a call that had one, and what close() left behind.
TalkMaxCalls == 2

\* processed.query_type.value of the questions asked
TalkQueryTypes == {"aggregation"}

TalkFails == {"none", "embedding"}

TalkIdle ==
    [history |-> FALSE, task_history |-> <<>>, with_history |-> {}, served_context |-> FALSE,
     closed |-> FALSE, pending_at_close |-> 0, failed |-> FALSE]

TalkInit(mode) ==
    /\ cm = get(CmNew(TRUE), EMBEDDING_INDEX, "semantic", TRUE, 0).cm
    /\ vs = VsNew(SemMaxEntries)
    /\ sc = ScNew(SemMaxEntries)
    /\ emb \in ServeEmbOpts
    /\ now = 0
    /\ orch = OrchNew(mode, "v1")
    /\ last = TalkIdle

\* the key cache_sql writes for a question
TalkKey(question) == _compute_hash(normalize(question))

\* the keys written for calls with a conversation_history, after one more write
TalkWritten(keys, question, has_history, ok) ==
    IF ~ok THEN keys
    ELSE IF has_history THEN keys \cup {TalkKey(question)}
    ELSE keys \ {TalkKey(question)}

\* "if use_cache and self.enable_caching and self.semantic_cache:
\*      if not conversation_history: cached = self.semantic_cache.get_sql(...)"
TalkLookup(c, v, s, e, question, schema_version, has_history, t) ==
    IF has_history
    THEN [cm |-> c, sc |-> s, hit |-> FALSE, entry |-> None, similarity |-> 0]
    ELSE get_sql(c, v, s, e, question, schema_version, TRUE, TRUE, t)

\* the answer came from an entry written for a call with a conversation_history
TalkServedContext(g) == g.hit /\ _compute_hash(g.entry.normalized_question) \in last.with_history

\* NL2SQLConverter.generate_sql(question, conversation_history=...)
TalkSyncGenerateSql ==
    /\ orch.mode = "sync" /\ orch.pc \in {"idle", "returned"}
    /\ orch.calls < TalkMaxCalls
    /\ \E question \in OrchQuestions, query_type \in TalkQueryTypes, has_history \in BOOLEAN,
          first \in LlmOutcomes, second \in LlmOutcomes :
          LET o == [orch EXCEPT !.calls = @ + 1]
              g == TalkLookup(cm, vs, sc, emb, question, orch.schema_version, has_history, now)
              checked   == Validated(first)
              corrected == Corrected(second, "Query was auto-corrected")
              response  == PostProcessed(checked.response)
              w == CacheAnswer(g.cm, vs, g.sc, question, response, query_type,
                               orch.schema_version, now)
              llm_calls == IF checked.is_valid THEN 1 ELSE 2
              used == IF checked.is_valid THEN NoOutcome ELSE second
              log == [last EXCEPT !.history = has_history]
          IN  IF g.hit
              THEN /\ orch' = Returned(o, question, "cache",
                                       CachedAnswer(g.entry, "Result from cache"),
                                       g.similarity, 0, orch.fresh)
                   /\ cm' = g.cm /\ sc' = g.sc /\ vs' = vs
                   /\ last' = [log EXCEPT !.served_context = @ \/ TalkServedContext(g)]
              ELSE IF first.kind = "error"
              THEN /\ orch' = Answered(Returned(o, question, "raised",
                                                SQLQuery(<<>>, 0, <<>>), 0, 1, orch.fresh),
                                       first, NoOutcome)
                   /\ cm' = g.cm /\ sc' = g.sc /\ vs' = vs /\ last' = log
              ELSE IF ~checked.is_valid /\ corrected.some
              THEN /\ orch' = Answered(Returned(o, question, "llm", corrected.response, 0,
                                                2, orch.fresh),
                                       first, second)
                   /\ cm' = g.cm /\ sc' = g.sc /\ vs' = vs /\ last' = log
              ELSE IF response.confidence >= CONFIDENCE_TO_CACHE
              THEN /\ orch' = Answered(Returned(o, question, "llm", response, 0, llm_calls,
                                                orch.fresh),
                                       first, used)
                   /\ cm' = w.cm /\ sc' = w.sc /\ vs' = w.vs
                   /\ last' = [log EXCEPT !.with_history =
                                  TalkWritten(@, question, has_history, w.ok)]
              ELSE /\ orch' = Answered(Returned(o, question, "llm", response, 0, llm_calls,
                                                orch.fresh),
                                       first, used)
                   /\ cm' = g.cm /\ sc' = g.sc /\ vs' = vs /\ last' = log
    /\ UNCHANGED <<val, loop, plan, now, emb, batch, store, post, svm, exe, thr, mgr, conv>>

\* AsyncNL2SQLConverter.generate_sql(question, conversation_history=...) up to
\* its first await
TalkAsyncGenerateSql ==
    /\ orch.mode = "async" /\ orch.pc \in {"idle", "returned"}
    /\ orch.calls < TalkMaxCalls /\ ~last.closed
    /\ \E question \in OrchQuestions, query_type \in TalkQueryTypes, has_history \in BOOLEAN :
          LET o == [orch EXCEPT !.calls = @ + 1]
              g == TalkLookup(cm, vs, sc, emb, question, orch.schema_version, has_history, now)
          IN  /\ cm' = g.cm /\ sc' = g.sc
              /\ orch' = IF g.hit
                         THEN Returned(o, question, "cache",
                                       CachedAnswer(g.entry, "From cache"), g.similarity, 0,
                                       orch.fresh)
                         ELSE [o EXCEPT !.pc = "llm", !.question = question,
                                        !.query_type = query_type,
                                        !.right_after = orch.fresh, !.fresh = FALSE]
              /\ last' = [last EXCEPT !.history = has_history,
                                      !.served_context = @ \/ TalkServedContext(g)]
    /\ UNCHANGED <<val, loop, plan, now, vs, emb, batch, store, post, svm, exe, thr, mgr, conv>>

\* the log after a step of generate_sql that changed the tasks: a task
\* created by asyncio.create_task is one of the call in flight
TalkTasked(l, before, after) ==
    [l EXCEPT !.task_history = IF Len(after) > Len(before) THEN Append(@, l.history) ELSE @]

\* the LLM's answer arrives
TalkLlmAnswer ==
    /\ orch.mode = "async" /\ orch.pc = "llm"
    /\ \E first \in LlmOutcomes :
          /\ orch' = LlmAnswered(orch, first)
          /\ last' = TalkTasked(last, orch.tasks, orch'.tasks)
    /\ UNCHANGED <<val, loop, plan, cm, now, vs, sc, emb, batch, store, post, svm, exe, thr, mgr, conv>>

\* the correcting LLM call's answer arrives
TalkCorrectionAnswer ==
    /\ orch.mode = "async" /\ orch.pc = "correct"
    /\ \E second \in LlmOutcomes :
          /\ orch' = CorrectionAnswered(orch, second)
          /\ last' = TalkTasked(last, orch.tasks, orch'.tasks)
    /\ UNCHANGED <<val, loop, plan, cm, now, vs, sc, emb, batch, store, post, svm, exe, thr, mgr, conv>>

\* "try: self.semantic_cache.cache_sql(...) except Exception as e: logger.debug(...)"
_cache_result(c, v, s, task, fail, t) ==
    cache_sql(c, v, s, task.question, task.response.query, task.query_type, <<"users">>,
              task.schema_version, fail, t)

\* the event loop runs the oldest _cache_result task while the caller is
\* suspended; the write may fail
TalkCacheResult ==
    /\ orch.mode = "async" /\ orch.pc \in {"idle", "llm", "correct"}
    /\ orch.tasks # <<>>
    /\ \E fail \in TalkFails :
          LET task == Head(orch.tasks)
              w == _cache_result(cm, vs, sc, task, fail, now)
          IN  /\ cm' = w.cm /\ vs' = w.vs /\ sc' = w.sc
              /\ orch' = [orch EXCEPT !.tasks = Tail(@), !.fresh = FALSE]
              /\ last' = [last EXCEPT !.task_history = Tail(@),
                                      !.failed = @ \/ ~w.ok,
                                      !.with_history =
                                          TalkWritten(@, task.question,
                                                      Head(last.task_history), w.ok)]
    /\ UNCHANGED <<val, loop, plan, now, emb, batch, store, post, svm, exe, thr, mgr, conv>>

\* the caller awaits something else before its next call
TalkCallerSuspends ==
    /\ orch.mode = "async" /\ orch.pc = "returned"
    /\ orch' = [orch EXCEPT !.pc = "idle", !.fresh = FALSE]
    /\ UNCHANGED <<val, loop, plan, cm, now, vs, sc, emb, batch, store, post, svm, exe, thr, mgr, conv, last>>

\* AsyncNL2SQLConverter.close(): AsyncLLMClient.close() drops its client and
\* never suspends, so no task runs before close() returns
TalkClose ==
    /\ orch.mode = "async" /\ orch.pc \in {"idle", "returned"}
    /\ ~last.closed
    /\ last' = [last EXCEPT !.closed = TRUE, !.pending_at_close = Len(orch.tasks)]
    /\ UNCHANGED <<val, loop, plan, cm, now, vs, sc, emb, orch, batch, store, post, svm, exe, thr, mgr, conv>>

(***************************************************************************)
(* AsyncNL2SQLConverter.generate_sql_batch  (src/src/core/async_converter.py) *)
(***************************************************************************)
MaxBatch == 3

MaxConcurrent == 2

BatchQuestions == {"q1", "q2"}

\* what the awaited create_completion does: it answers, it raises an error of
\* the provider, it outlives the timeout, or it is cancelled
LlmCallOutcomes == {"answer", "error", "timeout", "cancelled"}

\* the SQL the LLM writes for a question
LlmSql(question) == <<"SELECT", "*", "FROM", question>>

\* run_with_timeout: asyncio.TimeoutError becomes TimeoutError(error_msg),
\* every other exception of the coroutine passes
run_with_timeout(outcome) ==
    IF outcome = "timeout"
    THEN [raised |-> "TimeoutError", message |-> "LLM call timed out"]
    ELSE IF outcome = "error"
    THEN [raised |-> "APIError", message |-> "llm down"]
    ELSE IF outcome = "cancelled"
    THEN [raised |-> "CancelledError", message |-> ""]
    ELSE [raised |-> None, message |-> ""]

\* the classes "except Exception" catches; asyncio.CancelledError derives from
\* BaseException
IsException(raised) == raised \in {"TimeoutError", "APIError"}

\* a variant of the clause that catches everything
IsBaseException(raised) == raised # None

\* limited_generate below its "async with": the awaited generate_sql, whose
\* own "except Exception" logs and raises again, and the error-shaped answer
limited_generate(question, outcome) ==
    LET r == run_with_timeout(outcome)
    IN  IF r.raised = None
        THEN [raised |-> None, value |-> SQLQuery(LlmSql(question), 90, <<>>)]
        ELSE IF IsException(r.raised)
        THEN [raised |-> None,
              value |-> SQLQuery(<<"-- Error generating SQL">>, 0, <<r.message>>)]
        ELSE [raised |-> r.raised, value |-> SQLQuery(<<>>, 0, <<>>)]

\* a variant that keeps the semaphore
release_nothing(value) == value

\* Semaphore.release, the exit of "async with semaphore"
release(value) == value + 1

BatchIdle ==
    [pc |-> "idle", questions |-> <<>>, max_concurrent |-> 0, value |-> 0,
     task |-> <<>>, result |-> <<>>, completed |-> <<>>, results |-> <<>>]

BatchInit == batch = BatchIdle

SeqsUpTo(S, n) == UNION {[1..m -> S] : m \in 0..n}

InFlight == {i \in DOMAIN batch.task : batch.task[i] = "running"}

Waiting == {i \in DOMAIN batch.task : batch.task[i] = "waiting"}

\* asyncio.gather: the first child that raises settles the outer future with
\* its exception, otherwise the last child to finish settles it with the
\* results in the order of the arguments
gather(pc, task, result) ==
    IF pc # "gathering" THEN [pc |-> pc, results |-> batch.results]
    ELSE IF \E i \in DOMAIN task : task[i] = "cancelled"
    THEN [pc |-> "raised", results |-> <<>>]
    ELSE IF \A i \in DOMAIN task : task[i] = "finished"
    THEN [pc |-> "returned", results |-> result]
    ELSE [pc |-> pc, results |-> <<>>]

\* generate_sql_batch up to its "await asyncio.gather": the semaphore and one
\* limited_generate per question
BatchStart ==
    /\ batch.pc = "idle"
    /\ \E questions \in SeqsUpTo(BatchQuestions, MaxBatch), k \in 0..MaxConcurrent :
          LET task == [i \in 1..Len(questions) |-> "waiting"]
              result == [i \in 1..Len(questions) |-> SQLQuery(<<>>, 0, <<>>)]
              g == gather("gathering", task, result)
          IN  batch' = [batch EXCEPT !.pc = g.pc, !.questions = questions,
                                     !.max_concurrent = k, !.value = k,
                                     !.task = task, !.result = result,
                                     !.results = g.results]
    /\ UNCHANGED <<val, loop, plan, cm, now, vs, sc, emb, store, orch, post, svm, exe, thr, mgr, conv, last>>

\* Semaphore.acquire: the tasks arrive in the order of the questions and are
\* woken first come, first served
BatchAcquire ==
    /\ batch.value > 0
    /\ \E i \in Waiting :
          /\ \A j \in Waiting : i <= j
          /\ batch' = [batch EXCEPT !.value = @ - 1, !.task[i] = "running"]
    /\ UNCHANGED <<val, loop, plan, cm, now, vs, sc, emb, store, orch, post, svm, exe, thr, mgr, conv, last>>

\* one limited_generate leaves its "async with", and gather's callback runs
BatchFinish ==
    /\ \E i \in InFlight, outcome \in LlmCallOutcomes :
          LET r == limited_generate(batch.questions[i], outcome)
              task == [batch.task EXCEPT
                          ![i] = IF r.raised = None THEN "finished" ELSE "cancelled"]
              result == [batch.result EXCEPT ![i] = r.value]
              g == gather(batch.pc, task, result)
          IN  batch' = [batch EXCEPT !.value = release(@), !.task = task,
                                     !.result = result, !.pc = g.pc,
                                     !.results = g.results,
                                     !.completed = Append(@, i)]
    /\ UNCHANGED <<val, loop, plan, cm, now, vs, sc, emb, store, orch, post, svm, exe, thr, mgr, conv, last>>

(***************************************************************************)
(* CacheManager on a Redis client  (src/src/core/cache_manager.py)         *)
(*                                                                         *)
(* _init_redis has connected; each call below names, by its position in    *)
(* the call, the one Redis command of it that raises (0: none does).       *)
(***************************************************************************)
MaxStoreOps == 3

MaxCommands == 6

StoreNew ==
    [data |-> [k \in {} |-> None], current_schema_version |-> None,
     metrics |-> CmNew(TRUE).metrics]

\* the n-th Redis command of the call raises
Fails(n, failAt) == n = failAt

Ret(s, result, raised, failed) ==
    [s |-> s, result |-> result, raised |-> raised, failed |-> failed]

\* a variant without the handler
except_nothing(r, s, value) == r

\* "except Exception as e": log, and return the value
except_Exception(r, s, value) == IF r.raised THEN Ret(s, value, FALSE, TRUE) ELSE r

Put(data, k, e) == [x \in DOMAIN data \cup {k} |-> IF x = k THEN e ELSE data[x]]

Drop(data, keys) == [x \in DOMAIN data \ keys |-> data[x]]

\* set with self._redis_client: SETEX
set_redis(s, key, value, level, ttl, schema_version, failAt, t) ==
    LET full_key == _make_key(key, level)
        seconds  == IF ttl # 0 THEN ttl ELSE get_ttl(level)
        entry == [value |-> value, hit_count |-> 0, expires_at |-> t + seconds,
                  schema_version |-> IF Truthy(schema_version) THEN schema_version
                                     ELSE s.current_schema_version]
        body == IF Fails(1, failAt) THEN Ret(s, None, TRUE, TRUE)
                ELSE Ret([s EXCEPT !.data = Put(@, full_key, entry),
                                   !.metrics.total_entries = @ + 1], TRUE, FALSE, FALSE)
    IN  except_Exception(body, s, FALSE)

\* invalidate with self._redis_client: DELETE, the n-th command of the call
invalidate_redis(s, key, level, n, failAt) ==
    LET body == IF Fails(n, failAt) THEN Ret(s, None, TRUE, TRUE)
                ELSE Ret([s EXCEPT !.data = Drop(@, {_make_key(key, level)}),
                                   !.metrics.evictions = @ + 1], TRUE, FALSE, FALSE)
    IN  except_Exception(body, s, FALSE)

\* get with self._redis_client: GET, then DELETE for an entry of another schema
\* version, or TTL and SETEX to write the hit count back
get_redis(s, key, level, failAt) ==
    LET full_key == _make_key(key, level)
        body ==
            IF Fails(1, failAt) THEN Ret(s, None, TRUE, TRUE)
            ELSE IF full_key \notin DOMAIN s.data THEN Ret(record_miss(s), None, FALSE, FALSE)
            ELSE LET entry == s.data[full_key]
                     inv   == invalidate_redis(s, key, level, 2, failAt)
                 IN  IF /\ level \in SchemaLevels
                        /\ Truthy(entry.schema_version)
                        /\ entry.schema_version # s.current_schema_version
                     THEN Ret(record_miss(inv.s), None, FALSE, inv.failed)
                     ELSE IF Fails(2, failAt) \/ Fails(3, failAt)
                     THEN Ret(s, None, TRUE, TRUE)
                     ELSE Ret(record_hit([s EXCEPT !.data[full_key].hit_count = @ + 1],
                                         level),
                              entry.value, FALSE, FALSE)
    IN  except_Exception(body, record_miss(s), None)

LevelKeys(s, level) == {k \in DOMAIN s.data : k[1] = level}

\* the Redis commands invalidate_level issues
Issued(s, level) == IF LevelKeys(s, level) = {} THEN 1 ELSE 2

\* invalidate_level with self._redis_client: KEYS, then DELETE if there are any;
\* its first command is the n-th of the call
invalidate_level_redis(s, level, n, failAt) ==
    LET keys == LevelKeys(s, level)
        body == IF Fails(n, failAt) THEN Ret(s, None, TRUE, TRUE)
                ELSE IF keys = {} THEN Ret(s, 0, FALSE, FALSE)
                ELSE IF Fails(n + 1, failAt) THEN Ret(s, None, TRUE, TRUE)
                ELSE Ret([s EXCEPT !.data = Drop(@, keys),
                                   !.metrics.evictions = @ + Cardinality(keys)],
                         Cardinality(keys), FALSE, FALSE)
    IN  except_Exception(body, s, 0)

invalidate_schema_dependent_redis(s, n, failAt) ==
    LET a == invalidate_level_redis(s, "schema", n, failAt)
        b == invalidate_level_redis(a.s, "examples", n + Issued(s, "schema"), failAt)
        c == invalidate_level_redis(b.s, "prompt",
                                    n + Issued(s, "schema") + Issued(a.s, "examples"),
                                    failAt)
    IN  Ret(c.s, a.result + b.result + c.result, a.raised \/ b.raised \/ c.raised,
            a.failed \/ b.failed \/ c.failed)

update_schema_version_redis(s, version, failAt) ==
    IF version = s.current_schema_version THEN Ret(s, FALSE, FALSE, FALSE)
    ELSE LET u   == [s EXCEPT !.current_schema_version = version]
             inv == invalidate_schema_dependent_redis(u, 1, failAt)
         IN  IF s.current_schema_version # None
             THEN Ret(inv.s, TRUE, inv.raised, inv.failed)
             ELSE Ret(u, TRUE, FALSE, FALSE)

\* clear_all with self._redis_client: KEYS, then DELETE if there are any
clear_all_redis(s, failAt) ==
    LET keys == DOMAIN s.data
        body == IF Fails(1, failAt) THEN Ret(s, None, TRUE, TRUE)
                ELSE IF keys = {}
                THEN Ret([s EXCEPT !.metrics.total_entries = 0], 0, FALSE, FALSE)
                ELSE IF Fails(2, failAt) THEN Ret(s, None, TRUE, TRUE)
                ELSE Ret([s EXCEPT !.data = Drop(@, keys),
                                   !.metrics.evictions = @ + Cardinality(keys),
                                   !.metrics.total_entries = 0],
                         Cardinality(keys), FALSE, FALSE)
    IN  except_Exception(body, s, 0)

\* ---- the manager, Redis, and the last call with what it gave its caller
NoStoreCall ==
    [op |-> "none", level |-> None, failAt |-> 0, result |-> None, raised |-> FALSE,
     failed |-> FALSE, found |-> FALSE]

StoreIdle == [s |-> StoreNew, ops |-> 0, call |-> NoStoreCall]

StoreCalled(r, op, level, failAt, found) ==
    [s |-> r.s, ops |-> store.ops + 1,
     call |-> [op |-> op, level |-> level, failAt |-> failAt, result |-> r.result,
               raised |-> r.raised, failed |-> r.failed, found |-> found]]

StoreSet ==
    /\ store.ops < MaxStoreOps
    /\ \E key \in CmKeys, value \in CmValues, level \in CmLevelsUsed, ttl \in TtlOpts,
          schema_version \in Versions \cup {None}, failAt \in 0..1 :
          store' = StoreCalled(set_redis(store.s, key, value, level, ttl, schema_version,
                                         failAt, now),
                               "set", level, failAt, FALSE)
    /\ UNCHANGED <<val, loop, plan, cm, now, vs, sc, emb, orch, batch, post, svm, exe, thr, mgr, conv, last>>

StoreGet ==
    /\ store.ops < MaxStoreOps
    /\ \E key \in CmKeys, level \in CmLevelsUsed, failAt \in 0..3 :
          store' = StoreCalled(get_redis(store.s, key, level, failAt), "get", level, failAt,
                               _make_key(key, level) \in DOMAIN store.s.data)
    /\ UNCHANGED <<val, loop, plan, cm, now, vs, sc, emb, orch, batch, post, svm, exe, thr, mgr, conv, last>>

StoreInvalidate ==
    /\ store.ops < MaxStoreOps
    /\ \E key \in CmKeys, level \in CmLevelsUsed, failAt \in 0..1 :
          store' = StoreCalled(invalidate_redis(store.s, key, level, 1, failAt),
                               "invalidate", level, failAt, FALSE)
    /\ UNCHANGED <<val, loop, plan, cm, now, vs, sc, emb, orch, batch, post, svm, exe, thr, mgr, conv, last>>

StoreInvalidateLevel ==
    /\ store.ops < MaxStoreOps
    /\ \E level \in CmLevelsUsed, failAt \in 0..2 :
          store' = StoreCalled(invalidate_level_redis(store.s, level, 1, failAt),
                               "invalidate_level", level, failAt, FALSE)
    /\ UNCHANGED <<val, loop, plan, cm, now, vs, sc, emb, orch, batch, post, svm, exe, thr, mgr, conv, last>>

StoreInvalidateSchemaDependent ==
    /\ store.ops < MaxStoreOps
    /\ \E failAt \in 0..MaxCommands :
          store' = StoreCalled(invalidate_schema_dependent_redis(store.s, 1, failAt),
                               "invalidate_schema_dependent", None, failAt, FALSE)
    /\ UNCHANGED <<val, loop, plan, cm, now, vs, sc, emb, orch, batch, post, svm, exe, thr, mgr, conv, last>>

StoreUpdateSchemaVersion ==
    /\ store.ops < MaxStoreOps
    /\ \E version \in Versions, failAt \in 0..MaxCommands :
          store' = StoreCalled(update_schema_version_redis(store.s, version, failAt),
                               "update_schema_version", None, failAt, FALSE)
    /\ UNCHANGED <<val, loop, plan, cm, now, vs, sc, emb, orch, batch, post, svm, exe, thr, mgr, conv, last>>

StoreClearAll ==
    /\ store.ops < MaxStoreOps
    /\ \E failAt \in 0..2 :
          store' = StoreCalled(clear_all_redis(store.s, failAt), "clear_all", None, failAt,
                               FALSE)
    /\ UNCHANGED <<val, loop, plan, cm, now, vs, sc, emb, orch, batch, post, svm, exe, thr, mgr, conv, last>>

\* time passes, and Redis drops the keys whose time has come
StoreTick ==
    /\ now + TickSeconds <= MaxNow
    /\ now' = now + TickSeconds
    /\ store' = [store EXCEPT !.s.data =
                    Drop(@, {k \in DOMAIN @ : @[k].expires_at <= now + TickSeconds})]
    /\ UNCHANGED <<val, loop, plan, cm, vs, sc, emb, orch, batch, post, svm, exe, thr, mgr, conv, last>>

(***************************************************************************)
(* SQLPostProcessor.process on one SQL string                              *)
(*                                                                         *)
(* A SQL string is the sequence of its words, one blank between two words; *)
(* "SP" is one more blank, "NL" a line break, and ";" is written right     *)
(* after the word before it.                                               *)
(***************************************************************************)
PostLead == {<<>>, <<"SP">>, <<"NL">>}
PostSelect == {"SELECT", "select"}
PostColumns == {"name", "*", "credit_limit", "COUNT(*)", "discount(price)"}
PostGap == {<<>>, <<"SP">>, <<"NL">>}
PostFrom == {"FROM", "from"}
PostTail ==
    { <<>>, <<"LIMIT", "5">>, <<"limit", "5">>, <<"GROUP", "BY", "name">>,
      <<"group", "NL", "by", "name">>, <<"GROUP", "SP", "BY", "name">> }
PostEnd == {<<>>, <<";">>, <<";", ";">>, <<";", "NL">>, <<"SP">>}

PostInputs ==
    { lead \o <<sel, col>> \o gap \o <<from, "t">> \o tail \o end :
        lead \in PostLead, sel \in PostSelect, col \in PostColumns, gap \in PostGap,
        from \in PostFrom, tail \in PostTail, end \in PostEnd }

PostIdle == [pc |-> "idle", x |-> <<>>, once |-> <<>>, twice |-> <<>>]

PostInit == post \in {[PostIdle EXCEPT !.pc = "new", !.x = x] : x \in PostInputs}

\* process(x)
PostProcess ==
    /\ post.pc = "new"
    /\ post' = [post EXCEPT !.pc = "once", !.once = process(post.x)]
    /\ UNCHANGED <<val, loop, plan, cm, now, vs, sc, emb, orch, batch, store, svm, exe, thr, mgr, conv, last>>

\* process(process(x))
PostProcessAgain ==
    /\ post.pc = "once"
    /\ post' = [post EXCEPT !.pc = "twice", !.twice = process(post.once)]
    /\ UNCHANGED <<val, loop, plan, cm, now, vs, sc, emb, orch, batch, store, svm, exe, thr, mgr, conv, last>>

(***************************************************************************)
(* SchemaVersionManager.compute_schema_hash                                *)
(*                                                                         *)
(* A schema is the list of its tables, a table has the list of its columns *)
(* and the list of its foreign keys.                                       *)
(***************************************************************************)
MaxForeignKeys == 2

SchemaTableNames == {"a", "b"}
SchemaColumnNames == {"x", "y"}

\* the order of Python's str on the names that are sort keys
NameRank == ("a" :> 1) @@ ("b" :> 2) @@ ("u" :> 3) @@ ("x" :> 4) @@ ("y" :> 5)

Column(name) == [name |-> name, type |-> "int", nullable |-> TRUE, primary_key |-> FALSE]

ForeignKey(column, table, references_column) ==
    [column |-> column, references_table |-> table, references_column |-> references_column]

SchemaForeignKeys ==
    {ForeignKey("x", "b", "u"), ForeignKey("x", "c", "w"), ForeignKey("y", "b", "v")}

DistinctSeqs(S, n) ==
    {q \in SeqsUpTo(S, n) : \A i, j \in 1..Len(q) : i # j => q[i] # q[j]}

SchemaTables ==
    { [table_name |-> n, columns |-> c, foreign_keys |-> f, row_count |-> 0] :
        n \in SchemaTableNames,
        c \in DistinctSeqs({Column(x) : x \in SchemaColumnNames}, 2) \ {<<>>},
        f \in DistinctSeqs(SchemaForeignKeys, MaxForeignKeys) }

Schemas ==
    { q \in SeqsUpTo(SchemaTables, 2) :
        \A i, j \in 1..Len(q) : i # j => q[i].table_name # q[j].table_name }

\* the same elements listed in another order
Relistings(q) == {[i \in 1..Len(q) |-> q[p[i]]] : p \in Permutations(1..Len(q))}

TableRelistings(t) ==
    { [t EXCEPT !.columns = c, !.foreign_keys = f] :
        c \in Relistings(t.columns), f \in Relistings(t.foreign_keys) }

SchemaRelistings(schema) ==
    { q \in [1..Len(schema) -> UNION {TableRelistings(schema[i]) : i \in 1..Len(schema)}] :
        \E r \in Relistings(schema) : \A i \in 1..Len(q) : q[i] \in TableRelistings(r[i]) }

\* list.sort(key=...): ascending in the key, equal keys keep their order
list_sort(q, key(_)) ==
    LET pos(i) ==
            1 + Cardinality({j \in 1..Len(q) :
                                \/ key(q[j]) < key(q[i])
                                \/ key(q[j]) = key(q[i]) /\ j < i})
    IN  [n \in 1..Len(q) |-> q[CHOOSE i \in 1..Len(q) : pos(i) = n]]

\* col.get("name", ""), col.get("type", ""), col.get("nullable", True),
\* col.get("primary_key", False)
NormalColumn(col) ==
    [ name |-> IF "name" \in DOMAIN col THEN col.name ELSE "",
      type |-> IF "type" \in DOMAIN col THEN col.type ELSE "",
      nullable |-> IF "nullable" \in DOMAIN col THEN col.nullable ELSE TRUE,
      primary_key |-> IF "primary_key" \in DOMAIN col THEN col.primary_key ELSE FALSE ]

\* fk.get("references_table", fk.get("referenced_table", "")), the column likewise
NormalForeignKey(fk) ==
    [ column |-> IF "column" \in DOMAIN fk THEN fk.column ELSE "",
      references_table |->
          IF "references_table" \in DOMAIN fk THEN fk.references_table
          ELSE IF "referenced_table" \in DOMAIN fk THEN fk.referenced_table ELSE "",
      references_column |->
          IF "references_column" \in DOMAIN fk THEN fk.references_column
          ELSE IF "referenced_column" \in DOMAIN fk THEN fk.referenced_column ELSE "" ]

_normalize_schema(schema) ==
    LET names == {schema[i].table_name : i \in 1..Len(schema)}
        \* tables[table_name] = ...: a later table of the same name replaces an earlier one
        Listed(n) ==
            schema[CHOOSE i \in 1..Len(schema) :
                      /\ schema[i].table_name = n
                      /\ \A j \in (i + 1)..Len(schema) : schema[j].table_name # n]
        entry(t) ==
            [ columns |->
                  list_sort([i \in 1..Len(t.columns) |-> NormalColumn(t.columns[i])],
                            LAMBDA c : NameRank[c.name]),
              foreign_keys |->
                  list_sort([i \in 1..Len(t.foreign_keys) |-> NormalForeignKey(t.foreign_keys[i])],
                            LAMBDA f : NameRank[f.column]),
              row_count |-> IF "row_count" \in DOMAIN t THEN t.row_count ELSE 0 ]
    IN  [tables |-> [n \in names |-> entry(Listed(n))], table_count |-> Cardinality(names)]

\* json.dumps(schema_data, sort_keys=True): the dict's entries in the order of their keys
json_dumps(schema_data) ==
    LET names == DOMAIN schema_data.tables
        nth(n) ==
            CHOOSE name \in names :
                Cardinality({m \in names : NameRank[m] < NameRank[name]}) = n - 1
    IN  << "table_count", schema_data.table_count,
           "tables", [n \in 1..Cardinality(names) |-> <<nth(n), schema_data.tables[nth(n)]>>] >>

\* hashlib.sha256(...).hex()[:16]: the digest of a text, not computed here;
\* two texts have the same digest only if they are the same text
sha256(text) == <<"sha256", text>>

compute_schema_hash(schema) == sha256(json_dumps(_normalize_schema(schema)))

SvmIdle == [pc |-> "idle", first |-> <<>>, second |-> <<>>, hash_first |-> None, hash_second |-> None]

SvmInit ==
    \E a \in Schemas : \E b \in SchemaRelistings(a) :
        svm = [SvmIdle EXCEPT !.pc = "new", !.first = a, !.second = b]

\* SchemaExtractor._extract_table_schema: the columns as dicts of name, type,
\* nullable ("YES" or "NO") and default, the primary key as the table's list
\* primary_keys, the foreign keys with the keys referenced_table and
\* referenced_column; the columns are listed in the table's own order
ExtractedColumn(name, type, nullable) ==
    [name |-> name, type |-> type, nullable |-> nullable, default |-> "None"]

ExtractedForeignKey(column, table, referenced_column) ==
    [column |-> column, referenced_table |-> table, referenced_column |-> referenced_column]

ExtractedColumns ==
    { <<ExtractedColumn("x", type, nullable)>> \o rest :
        type \in {"INTEGER", "TEXT"}, nullable \in {"YES", "NO"},
        rest \in {<<>>, <<ExtractedColumn("y", "INTEGER", "NO")>>} }

ExtractedTables(table_name) ==
    { [table_name |-> table_name, columns |-> c, primary_keys |-> pk, foreign_keys |-> f] :
        c \in ExtractedColumns,
        pk \in {<<>>, <<"x">>, <<"x", "y">>},
        f \in { <<>>, <<ExtractedForeignKey("x", "b", "u")>>,
                 <<ExtractedForeignKey("x", "c", "w")>> } }

WellFormed(t) == \A i \in 1..Len(t.primary_keys) : \E j \in 1..Len(t.columns) :
                    t.columns[j].name = t.primary_keys[i]

OtherTable ==
    [ table_name |-> "b", columns |-> <<ExtractedColumn("u", "INTEGER", "NO")>>,
      primary_keys |-> <<"u">>, foreign_keys |-> <<>> ]

ExtractedSchemas ==
    LET named(n) == {t \in ExtractedTables(n) : WellFormed(t)}
    IN  {<<t>> : t \in named("a") \cup named("b")} \cup {<<t, OtherTable>> : t \in named("a")}

\* two schemas of the extractor with a structural difference
SvmDiffInit ==
    \E a \in ExtractedSchemas : \E b \in ExtractedSchemas \ {a} :
        svm = [SvmIdle EXCEPT !.pc = "new", !.first = a, !.second = b]

\* compute_schema_hash(first)
SvmHashFirst ==
    /\ svm.pc = "new"
    /\ svm' = [svm EXCEPT !.pc = "first", !.hash_first = compute_schema_hash(svm.first)]
    /\ UNCHANGED <<val, loop, plan, cm, now, vs, sc, emb, orch, batch, store, post, exe, thr, mgr, conv, last>>

\* compute_schema_hash(second)
SvmHashSecond ==
    /\ svm.pc = "first"
    /\ svm' = [svm EXCEPT !.pc = "both", !.hash_second = compute_schema_hash(svm.second)]
    /\ UNCHANGED <<val, loop, plan, cm, now, vs, sc, emb, orch, batch, store, post, exe, thr, mgr, conv, last>>

(***************************************************************************)
(* QueryExecutor.execute and the checks of utils/validation.py             *)
(*                                                                         *)
(* Here a query is the sequence of the pieces of its text, nothing between *)
(* two pieces: words, ";", "SP" (a blank), "NL" (a line break), "--",      *)
(* "/*" and "*/".  Two words with nothing between them are one word.       *)
(***************************************************************************)
DANGEROUS_KEYWORDS ==
    { "DROP", "DELETE", "INSERT", "UPDATE", "ALTER", "CREATE", "TRUNCATE", "REPLACE",
      "MERGE", "GRANT", "REVOKE", "EXEC", "EXECUTE", "CALL" }

CommentMarks == {"--", "/*", "*/"}

IsText(piece) == piece \notin Whitespace \cup CommentMarks \cup {";", "*"}

\* the text of a run of words with nothing between them
WordOf(run) ==
    IF Len(run) = 1 THEN run[1]
    ELSE IF run = <<"DR", "OP">> THEN "DROP"
    ELSE "identifier"

\* the words of a query: its longest runs of pieces of text
WordsOf(q) ==
    { WordOf(SubSeq(q, i, j)) : <<i, j>> \in
        { <<i, j>> \in (1..Len(q)) \X (1..Len(q)) :
            /\ i <= j
            /\ \A k \in i..j : IsText(q[k])
            /\ (i = 1 \/ ~IsText(q[i - 1]))
            /\ (j = Len(q) \/ ~IsText(q[j + 1])) } }

\* re.sub(r'--.*$', '', query, flags=re.MULTILINE)
RECURSIVE ToLineEnd(_)
ToLineEnd(q) == IF q = <<>> \/ q[1] = "NL" THEN q ELSE ToLineEnd(Tail(q))

RECURSIVE RemoveLineComments(_)
RemoveLineComments(q) ==
    IF q = <<>> THEN q
    ELSE IF q[1] = "--" THEN RemoveLineComments(ToLineEnd(Tail(q)))
    ELSE <<q[1]>> \o RemoveLineComments(Tail(q))

\* re.sub(r'/\*.*?\*/', '', query, flags=re.DOTALL)
RECURSIVE RemoveBlockComments(_)
RemoveBlockComments(q) ==
    IF q = <<>> THEN q
    ELSE IF q[1] = "/*" /\ \E j \in 2..Len(q) : q[j] = "*/"
    THEN LET close == CHOOSE j \in 2..Len(q) :
                          q[j] = "*/" /\ \A k \in 2..(j - 1) : q[k] # "*/"
         IN  RemoveBlockComments(SubSeq(q, close + 1, Len(q)))
    ELSE <<q[1]>> \o RemoveBlockComments(Tail(q))

\* ' '.join(query.split())
RECURSIVE OneBlank(_)
OneBlank(q) ==
    IF q = <<>> THEN q
    ELSE IF q[1] \in Whitespace
    THEN IF Len(q) >= 2 /\ q[2] \in Whitespace THEN OneBlank(Tail(q))
         ELSE <<"SP">> \o OneBlank(Tail(q))
    ELSE <<q[1]>> \o OneBlank(Tail(q))

sanitize_query(query) ==
    strip(RStripSemicolon(strip(OneBlank(RemoveBlockComments(RemoveLineComments(query))))))

\* sqlparse.parse: the statements of the text, split at each ";"; a piece of
\* blanks only is no statement
RECURSIVE Pieces(_)
Pieces(q) ==
    IF \A i \in 1..Len(q) : q[i] # ";" THEN <<q>>
    ELSE LET at == CHOOSE i \in 1..Len(q) : q[i] = ";" /\ \A k \in 1..(i - 1) : q[k] # ";"
         IN  <<SubSeq(q, 1, at - 1)>> \o Pieces(SubSeq(q, at + 1, Len(q)))

Statements(q) == SelectSeq(Pieces(q), LAMBDA piece : strip(piece) # <<>>)

\* what sqlparse.parse is taken to give: the statements of the text, the
\* text as one statement, or an exception
SqlparseOutcomes == {"statements", "single", "raises"}

validate_sql(query, sqlparse) ==
    LET stripped == strip(query)
        body == IF stripped # <<>> /\ stripped[Len(stripped)] = ";"
                THEN strip(SubSeq(stripped, 1, Len(stripped) - 1)) ELSE stripped
        parsed == IF sqlparse = "single" THEN 1 ELSE Len(Statements(body))
    IN  IF stripped = <<>> THEN FALSE
        ELSE IF sqlparse = "raises" THEN FALSE
        ELSE IF parsed = 0 THEN FALSE
        ELSE parsed <= 1

Count(q, piece) == Cardinality({i \in 1..Len(q) : q[i] = piece})

\* a variant that finds no dangerous keyword
found_nothing(query) == {}

\* the keywords found by r'\b' + keyword + r'\b' in query.upper()
found_dangerous(query) == {UpperWord(w) : w \in WordsOf(query)} \cap DANGEROUS_KEYWORDS

is_safe_query(query) ==
    LET stripped == strip(query)
        issues ==
            (IF found_dangerous(query) # {} THEN {"Dangerous keywords found"} ELSE {})
            \cup (IF stripped # <<>> /\ UpperWord(stripped[1]) \in {"SELECT", "WITH"} THEN {}
                  ELSE {"Query must start with SELECT or WITH"})
            \cup (IF Range(query) \cap CommentMarks # {}
                  THEN {"SQL comments are not allowed"} ELSE {})
            \cup (IF \/ Count(query, ";") > 1
                     \/ Count(query, ";") = 1 /\ stripped[Len(stripped)] # ";"
                  THEN {"Multiple statements or suspicious semicolons detected"} ELSE {})
            \cup (IF Count(query, "*") > 3 THEN {"Warning: Excessive use of wildcards"} ELSE {})
    IN  issues = {}

add_query_limit(query) ==
    IF HasLimitText(query) THEN query
    ELSE RStripSemicolon(query) \o <<"SP", "LIMIT", "SP", DEFAULT_LIMIT>>

QeFirst ==
    { <<"SELECT">>, <<"select">>, <<"WITH">>, <<"SP", "SELECT">>, <<"DROP">>,
      <<"DR", "/*", "*/", "OP">>, <<"/*", "x", "*/", "SELECT">>, <<>> }
QeBody == {<<>>, <<"SP", "1">>, <<"SP", "dropped">>, <<"SP", "drop">>, <<"SP", "1", "SP", "LIMIT", "SP", "5">>}
QeBetween == {<<>>, <<";">>, <<";", "SP", ";">>, <<"SP", ";", "NL">>}
QeSecond ==
    { <<>>, <<"SELECT", "SP", "2">>, <<"DROP", "SP", "t">>, <<"DR", "/*", "x", "*/", "OP", "SP", "t">>,
      <<"--", "SP", "DROP", "SP", "t">>, <<"--", "x", "NL", "delete", "SP", "t">>,
      <<"/*", "DROP", "*/">>, <<"/*", "SP", "x">> }
QeEnd == {<<>>, <<";">>, <<";", ";">>, <<";", "SP", ";">>, <<"SP">>}

QeInputs ==
    { first \o body \o between \o second \o end :
        first \in QeFirst, body \in QeBody, between \in QeBetween,
        second \in QeSecond, end \in QeEnd }

\* what the database does with a statement: rows, an error of the statement,
\* or no connection
DatabaseOutcomes == {"rows", "error", "connect fails"}

ExeIdle ==
    [ pc |-> "idle", enable_auto_limit |-> TRUE, query |-> <<>>, dry_run |-> FALSE,
      steps |-> <<>>, sent |-> <<>>, success |-> FALSE ]

ExeInit ==
    \E query \in QeInputs, auto \in BOOLEAN :
        exe = [ExeIdle EXCEPT !.pc = "new", !.enable_auto_limit = auto, !.query = query]

Returned_execute(steps, sent, success, dry_run) ==
    [exe EXCEPT !.pc = "returned", !.steps = steps, !.sent = sent, !.success = success,
                !.dry_run = dry_run]

QeExecute ==
    /\ exe.pc = "new"
    /\ \E dry_run \in BOOLEAN, sqlparse \in SqlparseOutcomes, database \in DatabaseOutcomes :
          LET sanitized == sanitize_query(exe.query)
              limited == IF exe.enable_auto_limit THEN add_query_limit(sanitized) ELSE sanitized
              checked == <<"sanitize", "validate", "safety">>
              prepared == IF exe.enable_auto_limit THEN checked \o <<"limit">> ELSE checked
          IN  exe' =
                  IF ~validate_sql(sanitized, sqlparse)
                  THEN Returned_execute(<<"sanitize", "validate">>, <<>>, FALSE, dry_run)
                  ELSE IF ~is_safe_query(sanitized)
                  THEN Returned_execute(checked, <<>>, FALSE, dry_run)
                  ELSE IF dry_run
                  THEN Returned_execute(prepared, <<>>, TRUE, dry_run)
                  ELSE IF database = "connect fails"
                  THEN Returned_execute(prepared, <<>>, FALSE, dry_run)
                  ELSE Returned_execute(prepared \o <<"execute">>, <<limited>>,
                                        database = "rows", dry_run)
    /\ UNCHANGED <<val, loop, plan, cm, now, vs, sc, emb, orch, batch, store, post, svm, thr, mgr, conv, last>>

(***************************************************************************)
(* CacheManager.invalidate_level in an executor thread                     *)
(*                                                                         *)
(* load_schema is handed to run_in_executor; its update_schema_version     *)
(* reaches invalidate_level, which walks _local_cache in that thread while *)
(* the event loop serves the requests in flight.  No lock guards the dict. *)
(* A call of the event loop is one step; the thread's call is one step per *)
(* key it visits and per key it pops.                                      *)
(***************************************************************************)
MaxEvOps == 3

ThrKeys == {"k1", "k2"}
ThrLevels == {"prompt", "sql"}

ThrIdle ==
    [ pc |-> "idle", level |-> None, used |-> 0, seen |-> {}, keys_to_delete |-> {},
      count |-> 0, returned |-> 0, raised |-> FALSE, ops |-> 0 ]

ThrInit == thr = [ThrIdle EXCEPT !.pc = "ready"] /\ cm = CmNew(TRUE) /\ now = 0

\* the event loop: a request stores an entry
EvSet ==
    /\ thr.ops < MaxEvOps
    /\ \E key \in ThrKeys, level \in ThrLevels :
          cm' = set(cm, key, "a", level, 0, None, now).cm
    /\ thr' = [thr EXCEPT !.ops = @ + 1]
    /\ UNCHANGED <<val, loop, plan, now, vs, sc, emb, orch, batch, store, post, svm, exe, mgr, conv, last>>

\* the event loop: a request drops an entry
EvInvalidate ==
    /\ thr.ops < MaxEvOps
    /\ \E key \in ThrKeys, level \in ThrLevels : cm' = invalidate(cm, key, level)
    /\ thr' = [thr EXCEPT !.ops = @ + 1]
    /\ UNCHANGED <<val, loop, plan, now, vs, sc, emb, orch, batch, store, post, svm, exe, mgr, conv, last>>

\* the thread enters invalidate_level: iter(self._local_cache) notes the dict's size
ThrStart ==
    /\ thr.pc = "ready"
    /\ cm.enabled
    /\ \E level \in SchemaLevels \cap ThrLevels :
          thr' = [thr EXCEPT !.pc = "iterating", !.level = level,
                             !.used = Cardinality(DOMAIN cm.local)]
    /\ UNCHANGED <<val, loop, plan, cm, now, vs, sc, emb, orch, batch, store, post, svm, exe, mgr, conv, last>>

\* RuntimeError: dictionary changed size during iteration
changed_size(c, used) == Cardinality(DOMAIN c.local) # used

\* one next() of the list comprehension over the dict; the except clause of
\* invalidate_level turns the RuntimeError into the answer 0
ThrNext ==
    /\ thr.pc = "iterating"
    /\ IF changed_size(cm, thr.used)
       THEN thr' = [thr EXCEPT !.pc = "returned", !.raised = TRUE, !.returned = 0]
       ELSE IF DOMAIN cm.local \ thr.seen = {}
       THEN thr' = [thr EXCEPT !.pc = "deleting"]
       ELSE \E k \in DOMAIN cm.local \ thr.seen :
               thr' = [thr EXCEPT !.seen = @ \cup {k},
                                  !.keys_to_delete =
                                      IF k[1] = thr.level THEN @ \cup {k} ELSE @]
    /\ UNCHANGED <<val, loop, plan, cm, now, vs, sc, emb, orch, batch, store, post, svm, exe, mgr, conv, last>>

\* self._local_cache.pop(k, None); count += 1
ThrPop ==
    /\ thr.pc = "deleting"
    /\ \E k \in thr.keys_to_delete :
          /\ cm' = [cm EXCEPT !.local = Pop(@, k)]
          /\ thr' = [thr EXCEPT !.keys_to_delete = @ \ {k}, !.count = @ + 1]
    /\ UNCHANGED <<val, loop, plan, now, vs, sc, emb, orch, batch, store, post, svm, exe, mgr, conv, last>>

\* self.metrics.evictions += count; return count
ThrReturn ==
    /\ thr.pc = "deleting"
    /\ thr.keys_to_delete = {}
    /\ cm' = [cm EXCEPT !.metrics.evictions = @ + thr.count]
    /\ thr' = [thr EXCEPT !.pc = "returned", !.returned = thr.count]
    /\ UNCHANGED <<val, loop, plan, now, vs, sc, emb, orch, batch, store, post, svm, exe, mgr, conv, last>>

(***************************************************************************)
(* SchemaVersionManager.update_schema                                      *)
(***************************************************************************)
MaxHistory == 3
MaxUpdates == 4

SchemaA ==
    << [ table_name |-> "a", columns |-> <<ExtractedColumn("x", "INTEGER", "NO")>>,
         primary_keys |-> <<>>, foreign_keys |-> <<>> ] >>
SchemaB ==
    << [ table_name |-> "a", columns |-> <<ExtractedColumn("x", "TEXT", "NO")>>,
         primary_keys |-> <<>>, foreign_keys |-> <<>> ] >>
SchemaC == SchemaA \o <<OtherTable>>

LoadedSchemas == {SchemaA, SchemaB, SchemaC}

\* hash_bytes.hex()[:16]: the text of a digest; two digests have two texts
HexNames == {"h1", "h2", "h3"}
HexOf ==
    CHOOSE f \in [{compute_schema_hash(schema) : schema \in LoadedSchemas} -> HexNames] :
        \A a, b \in DOMAIN f : a # b => f[a] # f[b]

\* SchemaSnapshot(version_hash, table_count, tables); None is the snapshot
\* whose version_hash is None
NoSnapshot == [version_hash |-> None, table_count |-> 0]

create_snapshot(schema) ==
    [ version_hash |-> HexOf[compute_schema_hash(schema)],
      table_count |-> Cardinality(DOMAIN _normalize_schema(schema).tables) ]

MgrNew(max_history) ==
    [ max_history |-> max_history, current_snapshot |-> NoSnapshot, history |-> <<>>,
      updates |-> 0, returned |-> FALSE, raised |-> FALSE,
      prev |-> [current_snapshot |-> NoSnapshot, history |-> <<>>, given |-> NoSnapshot] ]

MgrIdle == MgrNew(10)

\* history[-n:]: the last n elements; the whole list for n = 0
LastOf(history, n) ==
    IF n = 0 \/ n >= Len(history) THEN history
    ELSE SubSeq(history, Len(history) - n + 1, Len(history))

\* a variant that keeps every snapshot
append_untrimmed(history, snapshot, max_history) == Append(history, snapshot)

\* self.history.append(new_snapshot), then the cut to max_history
append_trimmed(history, snapshot, max_history) ==
    IF Len(history) + 1 > max_history THEN LastOf(Append(history, snapshot), max_history)
    ELSE Append(history, snapshot)

\* the manager after the call, what the call returned, and whether it raised
\* instead: the IndexError of self.history[-2]
update_schema(m, schema) ==
    LET new_snapshot == create_snapshot(schema)
    IN  IF m.current_snapshot = NoSnapshot
        THEN [ m |-> [m EXCEPT !.current_snapshot = new_snapshot,
                               !.history = Append(@, new_snapshot)],
               returned |-> TRUE, raised |-> FALSE ]
        ELSE IF new_snapshot.version_hash # m.current_snapshot.version_hash
        THEN LET history == append_trimmed(m.history, new_snapshot, m.max_history)
             IN  [ m |-> [m EXCEPT !.current_snapshot = new_snapshot, !.history = history],
                   returned |-> Len(history) >= 2, raised |-> Len(history) < 2 ]
        ELSE [m |-> m, returned |-> FALSE, raised |-> FALSE]

get_current_version(m) == m.current_snapshot.version_hash

MgrInit == mgr \in {MgrNew(max_history) : max_history \in 0..MaxHistory}

MgrUpdateSchema ==
    /\ mgr.updates < MaxUpdates
    /\ \E schema \in LoadedSchemas :
          LET r == update_schema(mgr, schema)
          IN  mgr' = [r.m EXCEPT !.updates = @ + 1, !.returned = r.returned,
                                 !.raised = r.raised,
                                 !.prev = [ current_snapshot |-> mgr.current_snapshot,
                                            history |-> mgr.history,
                                            given |-> create_snapshot(schema) ]]
    /\ UNCHANGED <<val, loop, plan, cm, now, vs, sc, emb, orch, batch, store, post, svm, exe,
                   thr, conv, last>>

(***************************************************************************)
(* NL2SQLConverter and AsyncNL2SQLConverter: __init__, initialize and      *)
(* load_schema, as far as the schema version goes                          *)
(***************************************************************************)
MaxLoads == 3

ConvIdle ==
    [ kind |-> "sync", enable_caching |-> FALSE, cache_manager |-> FALSE,
      _initialized |-> FALSE, finished |-> "none", loads |-> 0 ]

\* __init__: the synchronous converter takes the cache manager at once, the
\* asynchronous one leaves cache_manager None until initialize
ConvNew(kind, enable_caching) ==
    [ConvIdle EXCEPT !.kind = kind, !.enable_caching = enable_caching,
                     !.cache_manager = (kind = "sync" /\ enable_caching),
                     !.finished = "__init__"]

ConvInit ==
    /\ conv \in {ConvNew(kind, e) : kind \in {"sync", "async"}, e \in BOOLEAN}
    /\ mgr = MgrNew(10)
    /\ cm = CmNew(TRUE)

\* a variant that hands the version to the cache manager whenever the schema changed
propagates_always(c, schema_changed) == schema_changed

\* if schema_changed and self.cache_manager
propagates(c, schema_changed) == schema_changed /\ c.cache_manager

\* load_schema after extract_schema gave this schema: what it leaves of the
\* manager and of the cache store
load_schema(c, m, cache, schema) ==
    IF ~c.enable_caching THEN [m |-> m, cm |-> cache, raised |-> FALSE]
    ELSE LET r == update_schema(m, schema)
         IN  IF r.raised THEN [m |-> r.m, cm |-> cache, raised |-> TRUE]
             ELSE IF propagates(c, r.returned)
             THEN [ m |-> r.m,
                    cm |-> update_schema_version(cache, get_current_version(r.m)).cm,
                    raised |-> FALSE ]
             ELSE [m |-> r.m, cm |-> cache, raised |-> FALSE]

ConvLoadSchema ==
    /\ conv.loads < MaxLoads
    /\ conv.kind = "async" => conv._initialized
    /\ \E schema \in LoadedSchemas :
          LET r == load_schema(conv, mgr, cm, schema)
          IN  /\ mgr' = r.m
              /\ cm' = r.cm
              /\ conv' = [conv EXCEPT !.loads = @ + 1,
                                      !.finished = IF r.raised THEN "raised" ELSE "load_schema"]
    /\ UNCHANGED <<val, loop, plan, now, vs, sc, emb, orch, batch, store, post, svm, exe, thr,
                   last>>

\* initialize: load_schema in the executor, then get_cache_manager(), which
\* may fail and turn caching off
ConvInitialize ==
    /\ conv.kind = "async"
    /\ ~conv._initialized
    /\ \E schema \in LoadedSchemas, caching_starts \in BOOLEAN :
          LET r == load_schema(conv, mgr, cm, schema)
          IN  /\ mgr' = r.m
              /\ cm' = r.cm
              /\ conv' =
                    IF r.raised THEN [conv EXCEPT !.finished = "raised"]
                    ELSE [conv EXCEPT !._initialized = TRUE, !.finished = "initialize",
                                      !.cache_manager = conv.enable_caching /\ caching_starts,
                                      !.enable_caching = @ /\ caching_starts]
    /\ UNCHANGED <<val, loop, plan, now, vs, sc, emb, orch, batch, store, post, svm, exe, thr,
                   last>>

(***************************************************************************)
(* Specifications                                                          *)
(***************************************************************************)
VsIdle == None
EmbIdle == None
OrchIdle == OrchNew("sync", None)
ScIdle == None

InitValidator ==
    /\ ValInit
    /\ loop = LoopIdle(0, 0) /\ plan = PlanIdle /\ cm = CmIdle /\ now = 0
    /\ vs = VsIdle /\ sc = ScIdle /\ emb = EmbIdle /\ orch = OrchIdle /\ batch = BatchIdle
    /\ store = StoreIdle
    /\ conv = ConvIdle /\ mgr = MgrIdle /\ thr = ThrIdle /\ exe = ExeIdle /\ svm = SvmIdle /\ post = PostIdle
    /\ last = LastIdle

NextValidator == Validate \/ ValidateNext

SpecValidator == InitValidator /\ [][NextValidator]_vars

InitLoop ==
    /\ LoopInit
    /\ val = ValIdle /\ plan = PlanIdle /\ cm = CmIdle /\ now = 0
    /\ vs = VsIdle /\ sc = ScIdle /\ emb = EmbIdle /\ orch = OrchIdle /\ batch = BatchIdle
    /\ store = StoreIdle
    /\ conv = ConvIdle /\ mgr = MgrIdle /\ thr = ThrIdle /\ exe = ExeIdle /\ svm = SvmIdle /\ post = PostIdle
    /\ last = LastIdle

NextLoop == LoopStart \/ LoopAttempt \/ LoopFinal

SpecLoop == InitLoop /\ [][NextLoop]_vars

InitPlan ==
    /\ PlanInit
    /\ val = ValIdle /\ loop = LoopIdle(0, 0) /\ cm = CmIdle /\ now = 0
    /\ vs = VsIdle /\ sc = ScIdle /\ emb = EmbIdle /\ orch = OrchIdle /\ batch = BatchIdle
    /\ store = StoreIdle
    /\ conv = ConvIdle /\ mgr = MgrIdle /\ thr = ThrIdle /\ exe = ExeIdle /\ svm = SvmIdle /\ post = PostIdle
    /\ last = LastIdle

NextPlan == PlanGet \/ PlanPut \/ PlanTick

SpecPlan == InitPlan /\ [][NextPlan]_vars

InitLru ==
    /\ LruInit
    /\ val = ValIdle /\ loop = LoopIdle(0, 0) /\ cm = CmIdle /\ now = 0
    /\ vs = VsIdle /\ sc = ScIdle /\ emb = EmbIdle /\ orch = OrchIdle /\ batch = BatchIdle
    /\ store = StoreIdle
    /\ conv = ConvIdle /\ mgr = MgrIdle /\ thr = ThrIdle /\ exe = ExeIdle /\ svm = SvmIdle /\ post = PostIdle
    /\ last = LastIdle

NextLru == LruPut \/ LruGet \/ LruInvalidate

SpecLru == InitLru /\ [][NextLru]_vars

InitCache ==
    /\ CmInit
    /\ val = ValIdle /\ loop = LoopIdle(0, 0) /\ plan = PlanIdle
    /\ vs = VsIdle /\ sc = ScIdle /\ emb = EmbIdle /\ orch = OrchIdle
    /\ batch = BatchIdle /\ store = StoreIdle
    /\ conv = ConvIdle /\ mgr = MgrIdle /\ thr = ThrIdle /\ exe = ExeIdle /\ svm = SvmIdle /\ post = PostIdle

NextCache ==
    \/ CmSet \/ CmGet \/ CmInvalidate \/ CmInvalidateLevel \/ CmUpdateSchemaVersion
    \/ CmClearAll \/ CmReset \/ Tick

SpecCache == InitCache /\ [][NextCache]_vars

InitSem ==
    /\ SemInit
    /\ val = ValIdle /\ loop = LoopIdle(0, 0) /\ plan = PlanIdle /\ orch = OrchIdle
    /\ batch = BatchIdle /\ store = StoreIdle
    /\ conv = ConvIdle /\ mgr = MgrIdle /\ thr = ThrIdle /\ exe = ExeIdle /\ svm = SvmIdle /\ post = PostIdle

NextSem == SemCacheSql \/ SemGetSql \/ SemInvalidateAll \/ SemTick

SpecSem == InitSem /\ [][NextSem]_vars

InitCacheSql ==
    /\ CsInit
    /\ val = ValIdle /\ loop = LoopIdle(0, 0) /\ plan = PlanIdle /\ orch = OrchIdle
    /\ emb = EmbIdle /\ batch = BatchIdle /\ store = StoreIdle
    /\ conv = ConvIdle /\ mgr = MgrIdle /\ thr = ThrIdle /\ exe = ExeIdle /\ svm = SvmIdle
    /\ post = PostIdle

NextCacheSql == CsCacheSql

SpecCacheSql == InitCacheSql /\ [][NextCacheSql]_vars

InitIndex ==
    /\ IxInit
    /\ val = ValIdle /\ loop = LoopIdle(0, 0) /\ plan = PlanIdle /\ orch = OrchIdle
    /\ sc = ScIdle /\ emb = EmbIdle /\ batch = BatchIdle /\ store = StoreIdle
    /\ conv = ConvIdle /\ mgr = MgrIdle /\ thr = ThrIdle /\ exe = ExeIdle /\ svm = SvmIdle
    /\ post = PostIdle

NextIndex == IxAdd \/ IxRemove \/ IxClear

SpecIndex == InitIndex /\ [][NextIndex]_vars

InitOrch ==
    /\ OrchInit
    /\ val = ValIdle /\ loop = LoopIdle(0, 0) /\ plan = OrchPlanCache /\ last = LastIdle
    /\ batch = BatchIdle /\ store = StoreIdle
    /\ conv = ConvIdle /\ mgr = MgrIdle /\ thr = ThrIdle /\ exe = ExeIdle /\ svm = SvmIdle /\ post = PostIdle

NextOrch ==
    \/ SyncGenerateSql \/ AsyncGenerateSql \/ AsyncLlmAnswer \/ AsyncCorrectionAnswer
    \/ AsyncCacheResult \/ CallerSuspends \/ OrchTick

SpecOrch == InitOrch /\ [][NextOrch]_vars

InitServe ==
    /\ ServeInit
    /\ val = ValIdle /\ loop = LoopIdle(0, 0) /\ plan = OrchPlanCache /\ last = LastIdle
    /\ batch = BatchIdle /\ store = StoreIdle
    /\ conv = ConvIdle /\ mgr = MgrIdle /\ thr = ThrIdle /\ exe = ExeIdle /\ svm = SvmIdle
    /\ post = PostIdle

SpecServe == InitServe /\ [][NextOrch]_vars

TalkRest ==
    /\ val = ValIdle /\ loop = LoopIdle(0, 0) /\ plan = OrchPlanCache
    /\ batch = BatchIdle /\ store = StoreIdle
    /\ conv = ConvIdle /\ mgr = MgrIdle /\ thr = ThrIdle /\ exe = ExeIdle /\ svm = SvmIdle
    /\ post = PostIdle

\* the asynchronous converter, its caller and its event loop
InitTalk == TalkInit("async") /\ TalkRest

NextTalk ==
    \/ TalkAsyncGenerateSql \/ TalkLlmAnswer \/ TalkCorrectionAnswer
    \/ TalkCacheResult \/ TalkCallerSuspends \/ TalkClose

SpecTalk == InitTalk /\ [][NextTalk]_vars

\* the synchronous converter
InitTalkSync == TalkInit("sync") /\ TalkRest

NextTalkSync == TalkSyncGenerateSql

SpecTalkSync == InitTalkSync /\ [][NextTalkSync]_vars

InitBatch ==
    /\ BatchInit /\ store = StoreIdle
    /\ conv = ConvIdle /\ mgr = MgrIdle /\ thr = ThrIdle /\ exe = ExeIdle /\ svm = SvmIdle /\ post = PostIdle
    /\ val = ValIdle /\ loop = LoopIdle(0, 0) /\ plan = PlanIdle /\ cm = CmIdle /\ now = 0
    /\ vs = VsIdle /\ sc = ScIdle /\ emb = EmbIdle /\ orch = OrchIdle /\ last = LastIdle

NextBatch == BatchStart \/ BatchAcquire \/ BatchFinish

SpecBatch == InitBatch /\ [][NextBatch]_vars

\* the event loop runs every task that is ready, and run_with_timeout ends
\* every LLM call
SpecBatchFair == SpecBatch /\ WF_vars(NextBatch)

InitStore ==
    /\ store = StoreIdle
    /\ conv = ConvIdle /\ mgr = MgrIdle /\ thr = ThrIdle /\ exe = ExeIdle /\ svm = SvmIdle /\ post = PostIdle /\ batch = BatchIdle
    /\ val = ValIdle /\ loop = LoopIdle(0, 0) /\ plan = PlanIdle /\ cm = CmIdle /\ now = 0
    /\ vs = VsIdle /\ sc = ScIdle /\ emb = EmbIdle /\ orch = OrchIdle /\ last = LastIdle

NextStore ==
    \/ StoreSet \/ StoreGet \/ StoreInvalidate \/ StoreInvalidateLevel
    \/ StoreInvalidateSchemaDependent \/ StoreUpdateSchemaVersion \/ StoreClearAll
    \/ StoreTick

SpecStore == InitStore /\ [][NextStore]_vars

InitProcess ==
    /\ PostInit /\ store = StoreIdle
    /\ conv = ConvIdle /\ mgr = MgrIdle /\ thr = ThrIdle /\ exe = ExeIdle /\ svm = SvmIdle /\ batch = BatchIdle
    /\ val = ValIdle /\ loop = LoopIdle(0, 0) /\ plan = PlanIdle /\ cm = CmIdle /\ now = 0
    /\ vs = VsIdle /\ sc = ScIdle /\ emb = EmbIdle /\ orch = OrchIdle /\ last = LastIdle

NextProcess == PostProcess \/ PostProcessAgain

SpecProcess == InitProcess /\ [][NextProcess]_vars

InitHash ==
    /\ SvmInit /\ store = StoreIdle
    /\ conv = ConvIdle /\ mgr = MgrIdle /\ thr = ThrIdle /\ exe = ExeIdle /\ batch = BatchIdle /\ post = PostIdle
    /\ val = ValIdle /\ loop = LoopIdle(0, 0) /\ plan = PlanIdle /\ cm = CmIdle /\ now = 0
    /\ vs = VsIdle /\ sc = ScIdle /\ emb = EmbIdle /\ orch = OrchIdle /\ last = LastIdle

NextHash == SvmHashFirst \/ SvmHashSecond

SpecHash == InitHash /\ [][NextHash]_vars

InitHashDiff ==
    /\ SvmDiffInit /\ store = StoreIdle
    /\ conv = ConvIdle /\ mgr = MgrIdle /\ thr = ThrIdle /\ exe = ExeIdle /\ batch = BatchIdle /\ post = PostIdle
    /\ val = ValIdle /\ loop = LoopIdle(0, 0) /\ plan = PlanIdle /\ cm = CmIdle /\ now = 0
    /\ vs = VsIdle /\ sc = ScIdle /\ emb = EmbIdle /\ orch = OrchIdle /\ last = LastIdle

SpecHashDiff == InitHashDiff /\ [][NextHash]_vars

InitExecutor ==
    /\ ExeInit /\ store = StoreIdle
    /\ conv = ConvIdle /\ mgr = MgrIdle /\ thr = ThrIdle /\ batch = BatchIdle /\ post = PostIdle /\ svm = SvmIdle
    /\ val = ValIdle /\ loop = LoopIdle(0, 0) /\ plan = PlanIdle /\ cm = CmIdle /\ now = 0
    /\ vs = VsIdle /\ sc = ScIdle /\ emb = EmbIdle /\ orch = OrchIdle /\ last = LastIdle

NextExecutor == QeExecute

SpecExecutor == InitExecutor /\ [][NextExecutor]_vars

InitThread ==
    /\ ThrInit /\ store = StoreIdle
    /\ conv = ConvIdle /\ mgr = MgrIdle /\ batch = BatchIdle /\ post = PostIdle /\ svm = SvmIdle
    /\ exe = ExeIdle
    /\ val = ValIdle /\ loop = LoopIdle(0, 0) /\ plan = PlanIdle
    /\ vs = VsIdle /\ sc = ScIdle /\ emb = EmbIdle /\ orch = OrchIdle /\ last = LastIdle

NextThread == EvSet \/ EvInvalidate \/ ThrStart \/ ThrNext \/ ThrPop \/ ThrReturn

SpecThread == InitThread /\ [][NextThread]_vars

InitVersions ==
    /\ MgrInit /\ conv = ConvIdle /\ cm = CmIdle /\ now = 0
    /\ store = StoreIdle /\ batch = BatchIdle /\ post = PostIdle /\ svm = SvmIdle
    /\ exe = ExeIdle /\ thr = ThrIdle
    /\ val = ValIdle /\ loop = LoopIdle(0, 0) /\ plan = PlanIdle
    /\ vs = VsIdle /\ sc = ScIdle /\ emb = EmbIdle /\ orch = OrchIdle /\ last = LastIdle

NextVersions == MgrUpdateSchema

SpecVersions == InitVersions /\ [][NextVersions]_vars

InitLoad ==
    /\ ConvInit /\ now = 0
    /\ store = StoreIdle /\ batch = BatchIdle /\ post = PostIdle /\ svm = SvmIdle
    /\ exe = ExeIdle /\ thr = ThrIdle
    /\ val = ValIdle /\ loop = LoopIdle(0, 0) /\ plan = PlanIdle
    /\ vs = VsIdle /\ sc = ScIdle /\ emb = EmbIdle /\ orch = OrchIdle /\ last = LastIdle

NextLoad == ConvInitialize \/ ConvLoadSchema

SpecLoad == InitLoad /\ [][NextLoad]_vars

(***************************************************************************)
(* Properties of SQLValidator                                              *)
(***************************************************************************)
\* C5: every statement whose type is DROP, DELETE, INSERT, UPDATE, ALTER, TRUNCATE,
\* CREATE, GRANT or REVOKE, with or without a WHERE clause and on any kind of
\* object, is rejected under every schema with at least one DANGEROUS_QUERY error
C5_DangerousStatementRejected ==
    (val.pc = "validated" /\ StatementType(val.sql) \in DangerousTypes)
        => /\ ~val.result.is_valid
           /\ "dangerous_query" \in Range(val.result.errors)

(***************************************************************************)
(* Properties of ExecutionFeedbackLoop                                     *)
(***************************************************************************)
AlwaysFailed == \A i \in 1..Len(loop.executions) : ~loop.executions[i].success

\* C1: execute_with_feedback returns for every max_retries >= 0; when the executor
\* always fails, at most max_retries correction requests have been issued and the
\* result returned has success = false
C1_AtMostMaxRetriesCorrections ==
    /\ loop.attempt <= loop.max_retries
    /\ (loop.pc = "returned" /\ loop.runs > 0 /\ AlwaysFailed)
          => /\ Len(loop.corrections) <= loop.max_retries
             /\ ~loop.result.success

\* C6: a corrected SQL the LLM returned is passed to the executor only if
\* SQLValidator accepts it
C6_CorrectionExecutedOnlyIfValid ==
    \A i \in 1..Len(loop.executions) :
        loop.executions[i].query # loop.executions[1].query
            => ValidatorAccepts(loop.executions[i].query)

\* C7: a failure with a permission-denied or a connection error is classified as
\* permission / connection and no correction request is sent to the LLM for it
C7_NoCorrectionForPermissionOrConnection ==
    /\ \A i \in 1..Len(loop.feedback_history) :
          LET f == loop.feedback_history[i]
          IN  /\ f.error_message \in PermissionMessages => f.error_type = "permission"
              /\ f.error_message \in ConnectionMessages => f.error_type = "connection"
    /\ \A i \in 1..Len(loop.corrections) :
          loop.corrections[i].error_message \notin (PermissionMessages \cup ConnectionMessages)

(***************************************************************************)
(* Properties of QueryPlanCache                                            *)
(***************************************************************************)
IsTopN(q) == Len(q) = 5 /\ q[1] = "top" /\ q[2] \in Digits /\ SubSeq(q, 3, 5) = <<"products", "by", "price">>

HasLimit(sql, n) == \E i \in 1..(Len(sql) - 1) : sql[i] = "LIMIT" /\ sql[i + 1] = n

\* C8: after put("top n1 products by price", sql with LIMIT n1, a non-empty tables
\* list, cols, 0.9), get("top n2 products by price") without a tables hint is a hit
\* whose filled template has LIMIT n2 and, when n2 differs from n1, no LIMIT n1
C8_TopNPlanReusedWithNewLimit ==
    ( /\ plan.prev.op = "put" /\ IsTopN(plan.prev.question)
      /\ plan.prev.tables # <<>> /\ plan.prev.confidence = 9
      /\ HasLimit(plan.prev.sql, plan.prev.question[2])
      /\ plan.last.op = "get" /\ IsTopN(plan.last.question) /\ plan.last.tables = <<>>
      /\ plan.clock <= TTL_HOURS )
        => /\ plan.last.ok
           /\ HasLimit(plan.last.filled, plan.last.question[2])
           /\ plan.prev.question[2] # plan.last.question[2]
                 => ~HasLimit(plan.last.filled, plan.prev.question[2])

(***************************************************************************)
(* Properties of CacheManager                                              *)
(***************************************************************************)
\* the entry a Get looks for, as the preceding update_schema_version found it
EntryBeforeUpdate == last.prev.before.local[_make_key(last.cur.key, last.cur.level)]

\* a Get(key, level) at a schema-dependent level that directly follows an
\* update_schema_version(v) with v different from the current version, for an entry
\* that had been Set before the update and whose TTL has not expired
GetAfterVersionChange ==
    /\ last.prev.op = "update_schema_version" /\ last.prev.ok
    /\ last.cur.op = "get" /\ last.cur.level \in SchemaLevels /\ last.cur.flag
    /\ _make_key(last.cur.key, last.cur.level) \in DOMAIN last.prev.before.local
    /\ last.cur.at <= EntryBeforeUpdate.expires_at

\* C3 as stated: whatever version the entry was stored with, and whether or not the
\* cache already had a current version, the Get is a miss
C3_MissAfterAnyVersionChange == GetAfterVersionChange => ~last.cur.ok

\* C3: the Get is a miss when the cache already had a current version before the
\* update, or when the entry carries a version of its own different from v
C3_MissAfterVersionChange ==
    ( /\ GetAfterVersionChange
      /\ \/ last.prev.before.current # None
         \/ /\ Truthy(EntryBeforeUpdate.schema_version)
            /\ EntryBeforeUpdate.schema_version # last.prev.version )
        => ~last.cur.ok

C3_Witness ==
    /\ GetAfterVersionChange
    /\ last.prev.before.current # None
    /\ EntryBeforeUpdate.schema_version = None
    /\ ~last.cur.ok

\* C4: a get_sql made with schema version v never answers, by exact or by
\* semantic match, with an entry stored under another schema version.
C4_NoAnswerFromOtherVersion ==
    LET cur == last.cur
    IN  (/\ cur.op = "get_sql" /\ cur.result.hit
         /\ Truthy(cur.schema_version) /\ Truthy(cur.result.entry.schema_version))
        => cur.result.entry.schema_version = cur.schema_version

\* a lookup with v2 that found the question's unexpired entry of v1 and missed
C4_Witness ==
    LET cur == last.cur
        key == _make_key(<<"sql:", _compute_hash(normalize(cur.question))>>, "sql")
    IN  /\ cur.op = "get_sql" /\ ~cur.result.hit /\ Truthy(cur.schema_version)
        /\ key \in DOMAIN cm.local
        /\ ~is_expired(cm.local[key], now)
        /\ Truthy(cm.local[key].value.schema_version)
        /\ cm.local[key].value.schema_version # cur.schema_version

\* C9: a semantic hit of get_sql is an entry whose embedding has cosine
\* similarity to the question's of at least similarity_threshold.
C9_SemanticHitAtOrAboveThreshold ==
    LET cur == last.cur
    IN  (cur.op = "get_sql" /\ cur.result.hit /\ cur.result.searched)
        => cosine_similarity(emb, embed_single(normalize(cur.question)),
                             cur.result.entry.embedding) >= sc.similarity_threshold

\* C10: after a successful cache_sql(q, sql, v) that no invalidation or later
\* cache_sql of the same normalized question has followed, and up to the
\* entry's expiry, get_sql(q2, v) with normalize(q2) = normalize(q) answers
\* with that sql, similarity 1.0, and does not search the vector store.
C10_ExactHitAfterStore ==
    LET cur == last.cur
        st  == last.stored[normalize(cur.question)]
    IN  (/\ cur.op = "get_sql" /\ st.live /\ st.schema_version = cur.schema_version
         /\ cur.at <= st.expires_at)
        => /\ cur.result.hit /\ cur.result.entry.sql = st.sql
           /\ cur.result.similarity = 100 /\ ~cur.result.searched

\* such a lookup, with a question other than the stored one
C10_Witness ==
    LET cur == last.cur
        st  == last.stored[normalize(cur.question)]
    IN  /\ cur.op = "get_sql" /\ st.live /\ st.schema_version = cur.schema_version
        /\ cur.at <= st.expires_at /\ cur.at > 0
        /\ cur.result.hit /\ cur.result.entry.question # cur.question

(***************************************************************************)
(* Properties of generate_sql                                              *)
(***************************************************************************)
\* the call before the latest returned an LLM-generated answer of confidence
\* 0.7 or more, and the latest call asked the same question right after it
RepeatedRightAfter ==
    /\ orch.prev.source = "llm" /\ orch.prev.response.confidence >= CONFIDENCE_TO_CACHE
    /\ orch.cur.right_after /\ orch.cur.question = orch.prev.question

CacheMarks == {"Result from cache", "From cache"}

\* C2: when generate_sql(q) returned an LLM-generated answer with confidence
\* of 0.7 or more, the next generate_sql(q) made right after it returned is
\* answered from the semantic cache, with similarity 1.0 and the cache mark in
\* potential_issues, and makes no LLM call; for the synchronous and for the
\* asynchronous converter.
C2_RepeatServedFromCache ==
    RepeatedRightAfter
        => /\ orch.cur.source = "cache" /\ orch.cur.similarity = 100
           /\ Range(orch.cur.response.potential_issues) \cap CacheMarks # {}
           /\ orch.cur.llm_calls = 0

(***************************************************************************)
(* Properties of CacheManager's expiry                                     *)
(***************************************************************************)
\* the latest call is a Get of a key whose latest Set, with a ttl, is still in force
GetOfLiveEntry == last.cur.op = "get" /\ last.live[last.cur.level].live

\* C11: with the in-process store, after Set(key, value, level, ttl=t), t > 0,
\* that no Set or invalidation of the key has followed, a Get returns value
\* at every time up to the expiry instant, and after it returns a miss and
\* leaves no entry under the key.
C11_ServedUntilExpiryThenRemoved ==
    GetOfLiveEntry
        => IF last.cur.at <= last.live[last.cur.level].expires_at
           THEN last.cur.ok /\ last.cur.value = last.live[last.cur.level].value
           ELSE /\ ~last.cur.ok
                /\ _make_key(last.cur.key, last.cur.level) \notin DOMAIN cm.local

\* a Get after the expiry instant of an entry that an earlier Get had served
C11_Witness ==
    /\ GetOfLiveEntry
    /\ last.cur.at > last.live[last.cur.level].expires_at
    /\ ~last.cur.ok
    /\ cm.metrics.hits > 0

(***************************************************************************)
(* Properties of generate_sql_batch                                        *)
(***************************************************************************)
\* the answer of the batch at one index: generated for the question there,
\* or the error-shaped one
AnswersAt(results, questions, i) ==
    \/ results[i] = SQLQuery(LlmSql(questions[i]), 90, <<>>)
    \/ /\ results[i].confidence = 0
       /\ results[i].potential_issues \in {<<"llm down">>, <<"LLM call timed out">>}

\* a batch that returns has one result per question, in the questions' order
ReturnedBatchIsOrdered ==
    batch.pc = "returned"
          => /\ Len(batch.results) = Len(batch.questions)
             /\ \A i \in 1..Len(batch.questions) :
                   AnswersAt(batch.results, batch.questions, i)

\* C12: generate_sql_batch(questions) always returns a list of exactly
\* len(questions) results in which result i answers question i, whatever the
\* completion order; a question whose generation raises (LLM error, timeout,
\* cancellation of its LLM call) yields an error-shaped result at its own
\* index instead of ending the batch with an exception.
C12_BatchReturnsOneResultPerQuestion ==
    /\ batch.pc # "raised"
    /\ ReturnedBatchIsOrdered

\* every task that has reached the semaphore goes on to leave generate_sql
EveryTaskProcessed(positive) ==
    \A i \in 1..MaxBatch :
        (i \in Waiting /\ (positive => batch.max_concurrent >= 1))
            ~> (i \in DOMAIN batch.task /\ batch.task[i] \in {"finished", "cancelled"})

ValidationFailed ==
    /\ orch.pc = "returned"
    /\ orch.cur.first.kind = "ok"
    /\ ~OrchValid(orch.cur.first.query)

\* the correcting call gave SQL that passes validation
CorrectionValid == orch.cur.second.kind = "ok" /\ OrchValid(orch.cur.second.query)

\* C14: when the generated SQL fails validation, generate_sql makes at most
\* one self-correction LLM call and returns a structured answer without
\* raising, whatever the outcome of that call; when the correction did not
\* yield valid SQL the answer is the original one with its confidence
\* multiplied by 0.3 and a non-empty potential_issues naming the validation
\* errors.
C14_OneCorrectionThenDegradedAnswer ==
    ValidationFailed
        => /\ orch.cur.llm_calls = 2
           /\ orch.cur.source = "llm"
           /\ orch.cur.second.kind # "none"
           /\ ~CorrectionValid
                 => LET v == validate(orch.cur.first.query, LoopSchema.table_names,
                                      LoopSchema.column_map)
                    IN  /\ orch.cur.response.query = format_sql(process(orch.cur.first.query))
                        /\ orch.cur.response.confidence * 10 \in
                               (orch.cur.first.confidence * 3 - 9)..(orch.cur.first.confidence * 3)
                        /\ v.errors # <<>>
                        /\ SubSeq(orch.cur.response.potential_issues, 1, Len(v.errors))
                               = v.errors

\* a validation failure of the asynchronous converter whose correcting call raised
C14_Witness ==
    /\ ValidationFailed
    /\ orch.cur.second.kind = "error"
    /\ orch.mode = "async"
    /\ orch.cur.response.confidence = 27

(***************************************************************************)
(* Properties of CacheManager under failures of Redis                      *)
(***************************************************************************)
\* what a call gives when it did nothing
NoOpValue(op) ==
    CASE op = "get" -> None
      [] op \in {"set", "invalidate", "update_schema_version"} -> FALSE
      [] OTHER -> 0

Resolved(sql) == \A i \in 1..Len(sql) : sql[i] \notin {"{limit}", "{time_value}", "{time_unit}"}

\* the latest call has returned, it missed the semantic cache, and the plan
\* cache holds a plan for its question that fills completely
PlanWouldAnswer ==
    /\ orch.pc = "returned"
    /\ orch.cur.source # "cache"
    /\ OrchPlanAnswer[orch.cur.question].hit
    /\ Resolved(OrchPlanAnswer[orch.cur.question].filled)

\* C16: for a non-schema question that misses the semantic cache, the
\* orchestrator consults the query-plan cache before calling the LLM: when a
\* cached plan matches and its template fills with no unresolved placeholder,
\* the filled SQL is returned without any LLM call.
C16_PlanAnsweredWithoutLlm ==
    PlanWouldAnswer
        => /\ orch.cur.llm_calls = 0
           /\ orch.cur.response.query = OrchPlanAnswer[orch.cur.question].filled

(***************************************************************************)
(* Properties of generate_sql's cache writes                               *)
(***************************************************************************)
\* the answers whose SQL passed validation, as generate_sql returns them
ValidAnswers == {format_sql(process(q)) : q \in {x \in OrchSqls : OrchValid(x)}}

\* the answer that a step which changes the vector store writes to the cache
Written ==
    IF orch.mode = "sync" THEN orch'.cur.response ELSE Head(orch.tasks).response

\* C17: the orchestrator writes an answer to the semantic cache only if the
\* answer it returns has confidence >= 0.7; SQL that failed validation and
\* was not successfully self-corrected is never written to the cache.
C17_OnlyConfidentValidAnswersCached ==
    [][ /\ vs' # vs
           => /\ orch.mode = "async" => orch.tasks # <<>>
              /\ Written.confidence >= 70
              /\ Written.query \in ValidAnswers
        /\ Len(orch'.tasks) > Len(orch.tasks)
           => /\ orch'.pc = "returned"
              /\ orch'.tasks[Len(orch'.tasks)].response = orch'.cur.response
      ]_vars

\* the cache holds an answer, and the call that has just returned gave SQL
\* that failed validation and was not corrected: none of it is to be written
C17_Witness ==
    /\ VsKeys(vs) # {}
    /\ ValidationFailed /\ ~CorrectionValid
    /\ orch.cur.first.confidence = 90
    /\ orch.tasks = <<>>

(***************************************************************************)
(* Properties of what execute_with_feedback returns                        *)
(***************************************************************************)
\* C18: whenever execute_with_feedback returns (sql, result, history), sql is
\* the initial query or a correction returned by the LLM, result is the
\* executor's outcome for exactly that sql, and when result is a failure the
\* last entry of history records that same sql and that same error message.
C18_ReturnedTripleIsConsistent ==
    loop.pc = "returned"
        => LET n == Len(loop.executions)
               h == Len(loop.feedback_history)
           IN  /\ \/ loop.current_query = loop.executions[1].query
                  \/ \E i \in 1..Len(loop.corrections) :
                        /\ loop.corrections[i].answer.kind = "sql"
                        /\ loop.corrections[i].answer.corrected_sql = loop.current_query
               /\ loop.executions[n].query = loop.current_query
               /\ loop.executions[n].success = loop.result.success
               /\ loop.executions[n].error_message = loop.result.error_message
               /\ ~loop.result.success
                     => /\ h > 0
                        /\ loop.feedback_history[h].original_query = loop.current_query
                        /\ loop.feedback_history[h].error_message = loop.result.error_message

\* C19: for every SQL string x (a SELECT with or without LIMIT, aggregate or
\* not, with or without trailing semicolon, in any keyword case and any
\* whitespace layout) process(process(x)) = process(x); and when x is a
\* non-aggregate SELECT without LIMIT, process(x) ends with exactly one LIMIT
\* clause carrying the default limit.
IsSelect(x) == strip(x) # <<>> /\ UpperWord(strip(x)[1]) = "SELECT"

HasLimitClause(x) == \E i \in 1..Len(x) : UpperWord(x[i]) = "LIMIT"

IsAggregate(x) ==
    LET words == SelectSeq(x, LAMBDA w : w \notin Whitespace)
    IN  \/ Range(x) \cap {"COUNT(*)", "COUNT(", "SUM(", "AVG(", "MAX(", "MIN("} # {}
        \/ \E i \in 1..(Len(words) - 1) :
              UpperWord(words[i]) = "GROUP" /\ UpperWord(words[i + 1]) = "BY"

EndsWithOneLimit(y) ==
    /\ Len(y) >= 2
    /\ y[Len(y) - 1] = "LIMIT"
    /\ y[Len(y)] = DEFAULT_LIMIT
    /\ Cardinality({i \in 1..Len(y) : UpperWord(y[i]) = "LIMIT"}) = 1

ProcessIsIdempotent == post.pc = "twice" => post.twice = post.once

PlainSelectGetsLimit ==
    (/\ post.pc \in {"once", "twice"}
     /\ IsSelect(post.x) /\ ~IsAggregate(post.x) /\ ~HasLimitClause(post.x))
        => EndsWithOneLimit(post.once)

C19_ProcessIdempotentAndLimitAdded == ProcessIsIdempotent /\ PlainSelectGetsLimit

\* C20: compute_schema_hash returns the same value for any two schemas that
\* contain the same tables, columns and foreign keys, whatever the order in
\* which the tables, the columns of a table and the foreign keys of a table
\* (several foreign keys on the same column included) are listed.
C20_HashIgnoresListingOrder == svm.pc = "both" => svm.hash_first = svm.hash_second

OneForeignKeyPerColumn(schema) ==
    \A i \in 1..Len(schema) :
        \A j, k \in 1..Len(schema[i].foreign_keys) :
            j # k => schema[i].foreign_keys[j].column # schema[i].foreign_keys[k].column

HashIgnoresOrderOfKeysOnDistinctColumns ==
    svm.pc = "both" /\ OneForeignKeyPerColumn(svm.first) => svm.hash_first = svm.hash_second

\* C21: any structural difference between two schemas as the extractor
\* produces them (an added, removed or renamed table or column, a changed
\* column type or nullability, a changed primary key, an added, removed or
\* retargeted foreign key) yields a different compute_schema_hash value.
C21_StructuralDifferenceChangesHash ==
    svm.pc = "both" /\ svm.first # svm.second => svm.hash_first # svm.hash_second

SamePrimaryKeys(a, b) ==
    /\ Len(a) = Len(b)
    /\ \A i \in 1..Len(a) : a[i].primary_keys = b[i].primary_keys

DifferenceBesidePrimaryKeyChangesHash ==
    (/\ svm.pc = "both" /\ svm.first # svm.second
     /\ SamePrimaryKeys(svm.first, svm.second))
        => svm.hash_first # svm.hash_second

\* C22: QueryExecutor.execute never sends to the database a statement that,
\* after sanitizing, contains a mutation keyword as a whole word, does not
\* start with SELECT or WITH, or consists of more than one statement; for such
\* input it returns success = false and the database is not touched.  The
\* steps come in the order sanitize, validate, safety check, add LIMIT,
\* execute.
HasMutationKeyword(q) == \E w \in WordsOf(q) : UpperWord(w) \in DANGEROUS_KEYWORDS

StartsWithSelectOrWith(q) == q # <<>> /\ UpperWord(q[1]) \in {"SELECT", "WITH"}

Forbidden(q) ==
    \/ HasMutationKeyword(q)
    \/ ~StartsWithSelectOrWith(q)
    \/ Len(Statements(q)) > 1

StepOrder == <<"sanitize", "validate", "safety", "limit", "execute">>

InStepOrder(steps) ==
    \E at \in [1..Len(steps) -> 1..Len(StepOrder)] :
        /\ \A i \in 1..Len(steps) : steps[i] = StepOrder[at[i]]
        /\ \A i \in 1..(Len(steps) - 1) : at[i] < at[i + 1]

C22_ForbiddenStatementNeverSent ==
    exe.pc = "returned" =>
        /\ Forbidden(sanitize_query(exe.query)) => exe.sent = <<>> /\ ~exe.success
        /\ InStepOrder(exe.steps)
        /\ exe.sent # <<>> =>
              /\ exe.steps[Len(exe.steps)] = "execute"
              /\ \A step \in {"sanitize", "validate", "safety"} : step \in Range(exe.steps)
              /\ exe.enable_auto_limit => "limit" \in Range(exe.steps)

C22_Witness ==
    /\ exe.pc = "returned"
    /\ Len(Statements(sanitize_query(exe.query))) > 1
    /\ ~HasMutationKeyword(sanitize_query(exe.query))
    /\ StartsWithSelectOrWith(sanitize_query(exe.query))
    /\ exe.sent = <<>> /\ ~exe.success

C22_WitnessSent ==
    /\ exe.pc = "returned" /\ exe.sent # <<>> /\ exe.success
    /\ Range(exe.query) \cap CommentMarks # {}

\* C23: under any interleaving of the operations of several requests in
\* flight with a level invalidation or schema reload that runs in an executor
\* thread, the cache store and the vector index keep their sequential
\* guarantees: no operation fails or is silently skipped because of a
\* concurrent modification.  Here: the thread's invalidate_level ends without
\* an exception raised inside it, which would leave the level as it was.
C23_NoOperationFailsOrIsSkipped == thr.pc = "returned" => ~thr.raised

\* C24: whenever a converter, synchronous or asynchronous, has finished its
\* initialization or a load_schema call with caching enabled, the cache
\* store's current schema version equals the manager's get_current_version():
\* every update_schema that reports a change, the first schema load included,
\* is propagated to update_schema_version.
C24_CacheVersionFollowsManager ==
    (conv.finished \in {"initialize", "load_schema"} /\ conv.enable_caching)
        => cm.current_schema_version = get_current_version(mgr)

SyncCacheVersionFollowsManager ==
    (conv.kind = "sync" /\ conv.finished = "load_schema" /\ conv.enable_caching)
        => cm.current_schema_version = get_current_version(mgr)

\* C25: when a cached answer that was already served k times from the semantic
\* cache is served again, the confidence generate_sql returns is
\* min(0.95, 0.8 + 0.1 * k), in hundredths: it does not go down as the hits
\* add up, is 0.95 from the third hit on, and is never above 0.95.
ServedEntries ==
    {k \in DOMAIN cm.local \cap DOMAIN cm'.local :
        /\ cm.local[k].level = "sql"
        /\ cm'.local[k].hit_count = cm.local[k].hit_count + 1
        /\ cm.local[k].value.sql = orch'.cur.response.query}

IsCacheHit ==
    orch'.calls = orch.calls + 1 /\ orch'.pc = "returned" /\ orch'.cur.source = "cache"

C25_ConfidenceGrowsWithHits ==
    [][IsCacheHit =>
         /\ ServedEntries # {}
         /\ \A k \in ServedEntries :
               orch'.cur.response.confidence = Min(95, 80 + 10 * cm.local[k].hit_count)]_vars

\* the confidence of a hit is the one of a first hit, however often the
\* answer was served
ConfidenceOfEveryHitIsTheFirst ==
    [][IsCacheHit =>
         /\ ServedEntries # {}
         /\ orch'.cur.response.confidence = 80]_vars

SecondHitServed ==
    /\ orch.cur.source = "cache"
    /\ \E k \in DOMAIN cm.local : cm.local[k].level = "sql" /\ cm.local[k].hit_count = 2

C26_WitnessSave ==
    /\ last.ops = 1 /\ last.cur.fail = "persist" /\ last.cur.ok /\ ~last.cur.saved
    /\ Len(vs.vectors) = SaveEvery

\* the index's save was reached and went through
C26_WitnessSaved == last.ops = 1 /\ last.cur.saved /\ Len(vs.vectors) = SaveEvery

\* C27: within one run of execute_with_feedback no correction is requested
\* once the two most recent executions failed with the same error message,
\* and the errors compared are those of the current run only: the handler's
\* history holds one pair per failed execution of this run, in order, and
\* nothing of an earlier run.
FailedInLoop == SelectSeq(loop.executions, LAMBDA e : ~e.success)

C27_NoCorrectionAfterSameErrorTwice ==
    /\ \A i \in 2..Len(loop.corrections) :
          loop.executions[i - 1].error_message # loop.executions[i].error_message
    /\ \A i \in 1..Len(loop.corrections) :
          /\ ~loop.executions[i].success
          /\ loop.corrections[i].error_message = loop.executions[i].error_message
    /\ loop.pc = "loop" =>
          /\ Len(loop.correction_history) = Len(loop.executions)
          /\ \A i \in 1..Len(loop.executions) :
                loop.correction_history[i]
                    = <<loop.executions[i].query, loop.executions[i].error_message>>

\* the same error twice ended a run that the retry limits would have let go on
C27_Witness ==
    /\ loop.pc = "final"
    /\ Len(loop.executions) = 2 /\ Len(loop.corrections) = 1
    /\ loop.executions[1].error_message = loop.executions[2].error_message
    /\ loop.handler_max_retries > 2 /\ loop.max_retries >= 2
    /\ analyze_error(loop.executions[2].error_message) \notin {"permission", "connection"}

\* a second run on the same handler whose first failure repeats the last
\* error of the run before, and which is corrected all the same
C27_WitnessSecondRun ==
    /\ loop.runs = 2 /\ loop.left # None
    /\ Len(loop.executions) = 1 /\ Len(loop.corrections) = 1
    /\ loop.executions[1].error_message = loop.left

\* C28: update_schema returns true exactly when it is the first call or the
\* new schema's hash differs from the current snapshot's; when it returns
\* false the current snapshot and the history are as before; after it
\* returns true get_current_version() is the new hash.
IsFirstOrDiffers ==
    \/ mgr.prev.current_snapshot = NoSnapshot
    \/ mgr.prev.given.version_hash # mgr.prev.current_snapshot.version_hash

ReportsChange ==
    /\ (~mgr.raised /\ mgr.returned) <=> IsFirstOrDiffers
    /\ (~mgr.raised /\ ~mgr.returned) =>
          /\ mgr.current_snapshot = mgr.prev.current_snapshot
          /\ mgr.history = mgr.prev.history
    /\ (~mgr.raised /\ mgr.returned) =>
          get_current_version(mgr) = mgr.prev.given.version_hash

C28_ReturnsTrueExactlyOnChange == mgr.updates > 0 => ReportsChange

\* with room for two snapshots or more, or with no limit, it does
ReturnsTrueOnChangeWithRoomForTwo ==
    (mgr.updates > 0 /\ mgr.max_history # 1) => ReportsChange

\* C29: after any sequence of update_schema calls and for every configured
\* max_history, update_schema never raises, the history is no longer than
\* max_history, it holds the most recent snapshots in arrival order, the
\* oldest dropped first, and its last element is the current snapshot.
IsLatestInOrder ==
    LET arrived == IF IsFirstOrDiffers THEN Append(mgr.prev.history, mgr.prev.given)
                   ELSE mgr.prev.history
    IN  /\ Len(mgr.history) <= Len(arrived)
        /\ mgr.history = SubSeq(arrived, Len(arrived) - Len(mgr.history) + 1, Len(arrived))
        /\ Len(mgr.history) = Min(Len(arrived), mgr.max_history)

HistoryBounded ==
    /\ ~mgr.raised
    /\ Len(mgr.history) <= mgr.max_history
    /\ IsLatestInOrder
    /\ mgr.history # <<>> /\ mgr.history[Len(mgr.history)] = mgr.current_snapshot

C29_HistoryBoundedAndNeverRaises == mgr.updates > 0 => HistoryBounded

\* with room for two snapshots or more, it is
HistoryBoundedWithRoomForTwo == (mgr.updates > 0 /\ mgr.max_history >= 2) => HistoryBounded

\* a history that was cut: the oldest snapshot is gone
HistoryWasCut ==
    /\ mgr.max_history >= 2 /\ Len(mgr.prev.history) = mgr.max_history
    /\ mgr.returned /\ mgr.history # mgr.prev.history

\* C30: when Get(key, level, checkSchemaVersion = true) at level schema,
\* examples or prompt finds an entry whose stored schema version differs from
\* the cache's current version, it returns a miss, records exactly one miss
\* and removes the entry, so that a following Get with checkSchemaVersion =
\* false misses too; an entry at level system, sql or semantic is never
\* dropped by a Get because of a version mismatch.
IsGet == last'.ops = last.ops + 1 /\ last'.cur.op = "get"

FullKeyOfGet == _make_key(last'.cur.key, last'.cur.level)

MissedAndRemoved ==
    /\ ~last'.cur.ok
    /\ cm'.metrics.misses = cm.metrics.misses + 1
    /\ cm'.metrics.hits = cm.metrics.hits
    /\ FullKeyOfGet \notin DOMAIN cm'.local
    /\ ~get(cm', last'.cur.key, last'.cur.level, FALSE, now).hit

KeptAtOtherLevels ==
    (/\ IsGet /\ last'.cur.level \notin SchemaLevels
     /\ FullKeyOfGet \in DOMAIN cm.local
     /\ ~is_expired(cm.local[FullKeyOfGet], now))
        => /\ last'.cur.ok
           /\ FullKeyOfGet \in DOMAIN cm'.local

C30_WitnessSql ==
    /\ last.cur.op = "get" /\ last.cur.flag /\ last.cur.level = "sql"
    /\ last.cur.stale /\ last.cur.ok
    /\ _make_key(last.cur.key, last.cur.level) \in DOMAIN cm.local


(***************************************************************************)
(* Properties of QueryPlanCache.put                                        *)
(***************************************************************************)
\* the step is a call of put
IsPut == plan'.ops = plan.ops + 1 /\ plan'.last.op = "put"

\* the pattern of the question of the put is unknown, or it was detected with
\* a confidence below min_confidence (by keywords only: 0.3 or 0.6)
PutBelowMinConfidence ==
    \/ Detected[plan'.last.question].pattern = "unknown"
    \/ Detected[plan'.last.question].confidence < MIN_CONFIDENCE

\* C31: put stores a plan only when the pattern detected for the question has
\* confidence >= min_confidence: a put for a question whose pattern is unknown
\* or detected by keywords only leaves the cache unchanged
C31_PutOnlyAtMinConfidence ==
    [][(IsPut /\ PutBelowMinConfidence) => plan'.cache = plan.cache]_vars

\* the key put computes for its question and tables
KeyOfPut ==
    _generate_cache_key(Detected[plan'.last.question].pattern, plan'.last.tables,
                        Detected[plan'.last.question].extracted_params)

\* the plan the cache holds under the key of the put, after the put
PlanOfPut == plan'.cache[KeyIndex(plan'.cache, KeyOfPut)].plan

\* C33: a put whose computed key already exists in the cache overwrites the
\* stored plan: afterwards the plan under that key carries the template derived
\* from the new sql and a fresh created_at
C33_PutOverwritesExistingPlan ==
    [][(IsPut /\ KeyIndex(plan.cache, KeyOfPut) # 0)
          => /\ KeyIndex(plan'.cache, KeyOfPut) # 0
             /\ PlanOfPut.sql_template =
                   _normalize_sql_to_template(
                       plan'.last.sql,
                       Detected[plan'.last.question].extracted_params).template
             /\ PlanOfPut.created_at = plan'.clock]_vars

\* ---- the size and the eviction of QueryPlanCache
PlanKeys(cache) == {cache[i].key : i \in 1..Len(cache)}

\* the step is a put of a key the cache does not hold, into a full cache
IsPutIntoFull ==
    /\ IsPut /\ Detected[plan'.last.question].pattern # "unknown"
    /\ KeyOfPut \notin PlanKeys(plan.cache)
    /\ Len(plan.cache) >= plan.max_size

\* the plan of the cache that was used least recently: last_used is the time of
\* its last get hit or, if it was never hit, of its insertion
LeastRecentlyUsed(cache) ==
    cache[CHOOSE i \in 1..Len(cache) :
              \A j \in 1..Len(cache) : cache[i].plan.last_used <= cache[j].plan.last_used]

\* the put removed exactly the least recently used plan and stored the new one
EvictsLeastRecentlyUsed ==
    /\ plan'.evicted = <<LeastRecentlyUsed(plan.cache)>>
    /\ PlanKeys(plan'.cache) =
          (PlanKeys(plan.cache) \ {LeastRecentlyUsed(plan.cache).key}) \cup {KeyOfPut}
    /\ Len(plan'.cache) = Len(plan.cache)

\* C32: after any sequence of put, get and invalidate, for every max_size >= 1,
\* the cache holds at most max_size plans; a put of a new key into a full cache
\* evicts exactly one plan, the least recently used one; a put never raises
C32_BoundedAndLruEvicted ==
    [][plan.max_size >= 1
          => /\ Len(plan'.cache) <= plan'.max_size
             /\ IsPut => ~plan'.raised
             /\ IsPutIntoFull => EvictsLeastRecentlyUsed
             /\ (IsPut /\ ~IsPutIntoFull) => plan'.evicted = <<>>]_vars

\* a put evicted a plan that had been inserted after the oldest plan of the
\* cache: a get hit had made the oldest plan the most recently used
C32_Witness ==
    /\ plan.max_size = 2 /\ plan.last.op = "put" /\ plan.last.ok
    /\ plan.prev.op = "get" /\ plan.prev.ok
    /\ Len(plan.evicted) = 1 /\ Len(plan.cache) = 2
    /\ plan.evicted[1].plan.created_at > plan.cache[1].plan.created_at
    /\ plan.cache[1].plan.hit_count = 1

\* a put into a full cache of one plan replaced it
C32_WitnessOne ==
    /\ plan.max_size = 1 /\ plan.last.op = "put" /\ Len(plan.evicted) = 1
    /\ Len(plan.cache) = 1

\* with max_size = 0 a put raised
C32_WitnessZero == plan.max_size = 0 /\ plan.last.op = "put" /\ plan.raised

(***************************************************************************)
(* Properties of EmbeddingVectorStore                                      *)
(***************************************************************************)
\* add evicted only when the store would otherwise exceed max_vectors: not when
\* the key was already there, not below the capacity; what it evicted is the
\* key added least recently, and not the key being added
EvictsOnlyForRoom ==
    last.cur.evicted # <<>> =>
        /\ last.cur.key \notin VsKeys(last.cur.before)
        /\ Len(last.cur.before.vectors) >= vs.max_vectors
        /\ last.cur.evicted = <<Head(last.cur.before.keys_order)>>
        /\ last.cur.key # Head(last.cur.before.keys_order)

\* C34: after any sequence of add, remove and clear, for every max_vectors >= 1,
\* the index holds at most max_vectors vectors; add always terminates; add
\* evicts only when the index would otherwise exceed max_vectors (re-adding a
\* key already present evicts nothing), and the evicted entry is the one least
\* recently added, never the key being added
C34_BoundedAndEvictsOnlyForRoom ==
    vs.max_vectors >= 1 =>
        /\ Len(vs.vectors) <= vs.max_vectors
        /\ ~last.cur.hung
        /\ last.cur.op = "add" => EvictsOnlyForRoom

\* the part of C34 about a key already present, on a store built without a
\* saved index: re-adding the key evicts nothing
ReAddEvictsNothing ==
    ( /\ vs.max_vectors >= 1 /\ last.cur.op = "add"
      /\ last.cur.key \in VsKeys(last.cur.before)
      /\ Len(last.cur.before.vectors) <= vs.max_vectors )
        => last.cur.evicted = <<>>

\* with room for one vector or more, add returned
AddReturnsWithRoomForOne == vs.max_vectors >= 1 => ~last.cur.hung

KeysOfOrder(v) == {v.keys_order[i] : i \in 1..Len(v.keys_order)}

\* C39: in every reachable state of EmbeddingVectorStore (after construction
\* with rehydration and any sequence of add, remove, eviction and clear) the
\* key sets of _vectors, _metadata and _keys_order are equal and _keys_order
\* contains no duplicate key
C39_KeySetsEqualAndOrderHasNoDuplicate ==
    /\ VsKeys(vs) = DOMAIN vs.metadata
    /\ VsKeys(vs) = KeysOfOrder(vs)
    /\ Cardinality(KeysOfOrder(vs)) = Len(vs.keys_order)
    /\ Cardinality(VsKeys(vs)) = Len(vs.vectors)

\* a store rehydrated from a saved index, after a remove and then an add that
\* evicted and stored a key it already held
C39_Witness ==
    /\ Len(last.prev.before.vectors) = SaveEvery
    /\ last.prev.op = "remove" /\ last.prev.key \in VsKeys(last.prev.before)
    /\ last.cur.op = "add" /\ last.cur.evicted # <<>>
    /\ last.cur.key \in VsKeys(last.cur.before)
    /\ vs.vectors # <<>>

\* a store after clear
C39_WitnessClear ==
    /\ last.cur.op = "clear" /\ last.cur.before.vectors # <<>> /\ vs.keys_order = <<>>

(***************************************************************************)
(* Properties of the metrics of CacheManager                               *)
(***************************************************************************)
SumOfHitsByLevel(metrics) ==
    metrics.hits_by_level["system"] + metrics.hits_by_level["schema"]
    + metrics.hits_by_level["examples"] + metrics.hits_by_level["prompt"]
    + metrics.hits_by_level["sql"] + metrics.hits_by_level["semantic"]

\* the get of the step returned a value and was counted as one hit and no miss
CountedAsHit ==
    /\ last'.cur.value # None
    /\ cm'.metrics.hits = cm.metrics.hits + 1 /\ cm'.metrics.misses = cm.metrics.misses

\* the get of the step returned None and was counted as one miss and no hit
CountedAsMiss ==
    /\ last'.cur.value = None
    /\ cm'.metrics.misses = cm.metrics.misses + 1 /\ cm'.metrics.hits = cm.metrics.hits

IsResetOfMetrics == last'.ops = last.ops + 1 /\ last'.cur.op = "reset"

\* C40: while the cache is enabled, every Get records exactly one hit or
\* exactly one miss: hits + misses equals the number of Get calls since the
\* last metrics reset, the sum of hits_by_level equals hits, a Get is counted as
\* a hit exactly when it returns a value, and operations other than Get change
\* neither hits nor misses
C40_EveryGetCountedOnce ==
    [][cm.enabled
          => /\ cm'.metrics.hits + cm'.metrics.misses = last'.gets
             /\ SumOfHitsByLevel(cm'.metrics) = cm'.metrics.hits
             /\ IsGet => (CountedAsHit \/ CountedAsMiss)
             /\ (~IsGet /\ ~IsResetOfMetrics)
                   => /\ cm'.metrics.hits = cm.metrics.hits
                      /\ cm'.metrics.misses = cm.metrics.misses]_vars

\* a get was counted as a hit, the metrics were reset, and a second hit of the
\* same entry was counted as the first one since the reset
C40_Witness ==
    /\ cm.enabled /\ last.gets = 1
    /\ last.cur.op = "get" /\ last.cur.ok
    /\ cm.metrics.hits = 1 /\ cm.metrics.misses = 0
    /\ cm.local[_make_key(last.cur.key, last.cur.level)].hit_count = 2

\* a get that found an expired entry was counted as a miss
C40_WitnessMisses ==
    /\ cm.enabled /\ last.gets = 2 /\ cm.metrics.misses = 2 /\ cm.metrics.hits = 0
    /\ last.cur.op = "get" /\ cm.metrics.total_entries > 0

\* the same on the Redis client, where any command of the call may fail: a get
\* is counted as one hit when it returns a value and as one miss when it
\* returns None, and no other call changes hits or misses
GetOnRedisCountedOnce ==
    [][store'.ops = store.ops + 1
          => IF store'.call.op = "get"
             THEN \/ /\ store'.call.result # None
                     /\ store'.s.metrics.hits = store.s.metrics.hits + 1
                     /\ store'.s.metrics.misses = store.s.metrics.misses
                  \/ /\ store'.call.result = None
                     /\ store'.s.metrics.misses = store.s.metrics.misses + 1
                     /\ store'.s.metrics.hits = store.s.metrics.hits
             ELSE /\ store'.s.metrics.hits = store.s.metrics.hits
                  /\ store'.s.metrics.misses = store.s.metrics.misses]_vars

(***************************************************************************)
(* Properties of the retry budget of execute_with_feedback                 *)
(***************************************************************************)
RecoverableMessages == ErrorMessages \ (PermissionMessages \cup ConnectionMessages)

\* every execution so far failed, each with another recoverable error
DifferentRecoverableErrors ==
    /\ \A i \in 1..Len(loop.executions) :
          /\ ~loop.executions[i].success
          /\ loop.executions[i].error_message \in RecoverableMessages
    /\ \A i, j \in 1..Len(loop.executions) :
          i # j => loop.executions[i].error_message # loop.executions[j].error_message

\* the LLM answered every request with a query that was not tried before
NewQueryOnEveryRequest ==
    \A i \in 1..Len(loop.corrections) :
        /\ loop.corrections[i].answer.kind = "sql"
        /\ \A j \in 1..Len(loop.executions) :
              j <= i => loop.corrections[i].answer.corrected_sql # loop.executions[j].query

\* the handler and the loop are given the same max_retries = N >= 1
SameBudget == loop.handler_max_retries = loop.max_retries /\ loop.max_retries >= 1

\* C36: with max_retries = N >= 1, an executor that fails with a different
\* recoverable error on every execution and an LLM that returns a new query on
\* every request, the retry loop is left after exactly N correction requests and
\* N + 1 executions
C36_ExactlyMaxRetriesCorrections ==
    (loop.pc = "final" /\ SameBudget /\ DifferentRecoverableErrors /\ NewQueryOnEveryRequest)
        => /\ Len(loop.corrections) = loop.max_retries
           /\ Len(loop.executions) = loop.max_retries + 1

\* the case of C36 is reached: the loop was left with max_retries = 1
C36_Case ==
    /\ loop.pc = "final" /\ SameBudget /\ loop.max_retries = 1
    /\ DifferentRecoverableErrors /\ NewQueryOnEveryRequest

\* the corrections that replaced current_query
AcceptedCorrections ==
    {i \in 1..Len(loop.corrections) :
        /\ loop.corrections[i].answer.kind = "sql"
        /\ loop.corrections[i].answer.corrected_sql # loop.corrections[i].failed_query}

\* C38: within one run every SQL candidate is sent to the executor at most once:
\* a candidate that has just failed is not executed again, and the number of
\* executor calls is at most one more than the number of corrections accepted
C38_EachCandidateExecutedOnce ==
    /\ Len(loop.executions) <= Cardinality(AcceptedCorrections) + 1
    /\ \A i \in 1..(Len(loop.executions) - 1) :
          loop.executions[i].query # loop.executions[i + 1].query

\* the case of C38 is reached: a run returned after a failure that no correction
\* followed
C38_Case ==
    /\ loop.pc = "returned"
    /\ Len(loop.executions) >= 2
    /\ Cardinality(AcceptedCorrections) = 0

(***************************************************************************)
(* Properties of the cache writes of the converters                        *)
(***************************************************************************)
\* a step that ran a _cache_result task
CacheResultRan == Len(orch'.tasks) < Len(orch.tasks)

\* C35: every background cache-write task is tracked: when close() returns no
\* cache-write task is still pending, and a cache-write task, failing or not,
\* leaves the response of the call that started it as it was
C35_NoTaskPendingWhenCloseReturns ==
    /\ [](last.closed => last.pending_at_close = 0)
    /\ [][CacheResultRan => orch'.cur = orch.cur /\ orch'.prev = orch.prev]_vars

\* the case of C35 is reached: close() returned right after a call that
\* created a task
C35_Case == last.closed /\ last.pending_at_close > 0 /\ orch.cur.source = "llm"

\* a failing cache-write task leaves the response as it was
C35_FailedTaskLeavesResponse ==
    [][CacheResultRan /\ last'.failed => orch'.cur = orch.cur /\ orch'.prev = orch.prev]_vars

\* C37: an answer generated with a non-empty conversation history is never
\* written to the semantic cache, and no call without a conversation history
\* is served an entry that was written for a call with one
C37_NoCacheWriteWithHistory ==
    /\ last.with_history = {}
    /\ ~last.served_context

\* the case of C37 is reached: a call with a conversation history was answered
\* by the LLM with the confidence that is cached
C37_Case ==
    /\ last.history /\ orch.pc = "returned" /\ orch.cur.source = "llm"
    /\ orch.cur.response.confidence >= CONFIDENCE_TO_CACHE

\* a call without a conversation history was served such an entry
C37_ServedContext == ~last.served_context

=============================================================================
